---- MODULE Spec2Model ----
(***************************************************************************)
(* Model of the layered data-lake pipeline of Case_SS:                     *)
(*   - MinioHandler (src/minio_handler.py): construction, the              *)
(*     deduplicating put (save_file_to_bucket) and the get                 *)
(*     (get_file_bytes_and_metadata);                                      *)
(*   - CVMETL.FS_filter_and_clean (src/etls/cvm_etl.py): the statement     *)
(*     reconciliation stage.                                               *)
(* Object keys are sequences of path components ("bronze/raw/f1.csv" is    *)
(* <<"bronze","raw","f1.csv">>); the object store is a function from the   *)
(* keys present to [payload, meta].                                        *)
(***************************************************************************)
EXTENDS Integers, Sequences, FiniteSets, TLC

VARIABLES
    store,      \* the bucket: key -> [payload, meta], domain = keys present
    attached,   \* history: key -> the metadata the last successful put of the key built
    last,       \* the last gateway call: [op, key, payload, trace, outcome, result]
    calls,      \* number of gateway calls made by the sequential client
    wpc,        \* concurrent writers: position of each writer in save_file_to_bucket
    wkey,       \* concurrent writers: save_file_path of each writer
    wpayload,   \* concurrent writers: file_bytes of each writer
    wlist,      \* concurrent writers: file_paths still to be stat-ed
    ipc,        \* MinioHandler.__init__: position
    ilog,       \* MinioHandler.__init__: the client calls made so far, in order
    ienv,       \* MinioHandler.__init__: the server the constructor talks to
    fs,         \* FS_filter_and_clean: the state of the running call
    en,         \* FS_enrich: the last call and what it did
    gm,         \* calculate_detailed_financials_quarterly: the last call and what it did
    cache,      \* the Redis cache: key -> value, domain = keys set
    etl,        \* FS_full_etl: the state of the running pipeline
    b3,         \* macro_data_full_etl: the last call and what it did
    rag         \* the RAG dataset and the last upload_document_and_start_parse call

gwVars   == <<attached, last, calls>>
wrVars   == <<wpc, wkey, wpayload, wlist>>
ctorVars == <<ipc, ilog, ienv>>
sideVars == <<b3, rag>>
dsVars   == <<en, gm, cache, etl, b3, rag>>
vars     == <<store, attached, last, calls, wpc, wkey, wpayload, wlist, ipc, ilog, ienv, fs,
              en, gm, cache, etl, b3, rag>>

-----------------------------------------------------------------------------
(* Bounds *)

NPayloads == 3
NTraces   == 2
MaxCalls  == 3
MaxRuns   == 2

Payloads == 1..NPayloads
TraceIds == 1..NTraces

-----------------------------------------------------------------------------
(* Keys and paths *)

PlaceholderKey == <<"bronze", "raw", ".placeholder">>

\* Every key of the gateway model, in the (lexicographic) order list_objects yields them.
AllKeys ==
    << <<"bronze", "raw", ".placeholder">>,
       <<"bronze", "raw", "f1.csv">>,
       <<"bronze", "raw", "f2.csv">>,
       <<"bronze", "raw", "snd", "t1.parquet">>,
       <<"silver", "cleaned", "t1.parquet">> >>

Keys    == {AllKeys[i] : i \in 1..Len(AllKeys)}
PutKeys == Keys \ {PlaceholderKey}

\* Path(save_file_path).parent
Parent(k) == SubSeq(k, 1, Len(k) - 1)

\* object_name starts with f"{parent_folder}/"
StartsWithFolder(folder, k) ==
    /\ Len(k) > Len(folder)
    /\ SubSeq(k, 1, Len(folder)) = folder

NoHash == <<>>

\* The digest create_put_obj_metadata puts under "file_hash": a function of the bytes alone.
FileHash(b) == <<"sha", b>>

\* create_put_obj_metadata(...): the provenance record of a put.
CreatePutObjMetadata(b, t, doc_type, agg_type) ==
    [file_hash |-> FileHash(b), trace_id |-> t,
     document_type |-> doc_type, aggregation_type |-> agg_type]

\* agg_type = None, and the document type of a caller that is not a pipeline stage
NoAggType      == "NONE"
GenericDocType == "DOCUMENT"

\* The metadata of an object put without any (a placeholder).
NoMeta == [file_hash |-> NoHash, trace_id |-> 0, document_type |-> "", aggregation_type |-> ""]

Placeholder == [payload |-> 0, meta |-> NoMeta]

\* client.list_objects(prefix=f"{parent_folder}/", recursive=True): the names of
\* every object below the folder, at any depth.
ListObjects(s, folder) == {k \in DOMAIN s : StartsWithFolder(folder, k)}

\* file_paths, in the order the listing yields the names
FilePaths(listed) == SelectSeq(AllKeys, LAMBDA k : k \in listed)

\* curr_file_metadata.get(FILE_HASH, None) for a listed path
StatHash(s, k) == IF k \in DOMAIN s THEN s[k].meta.file_hash ELSE NoHash

Seq2Set(q) == {q[i] : i \in 1..Len(q)}

\* client.put_object(object_name, data, metadata)
PutObject(s, k, b, meta) ==
    [x \in DOMAIN s \cup {k} |-> IF x = k THEN [payload |-> b, meta |-> meta] ELSE s[x]]

\* The same put with the dedup loop left out.
SaveFileNoDedup(s, k, b, t, doc_type, agg_type) ==
    [store |-> PutObject(s, k, b, CreatePutObjMetadata(b, t, doc_type, agg_type)),
     outcome |-> "written"]

\* MinioHandler.save_file_to_bucket run to completion on store s.
SaveFileToBucket(s, k, b, t, doc_type, agg_type) ==
    LET metadata   == CreatePutObjMetadata(b, t, doc_type, agg_type)
        file_paths == ListObjects(s, Parent(k))
    IN  IF \E p \in file_paths : StatHash(s, p) = metadata.file_hash
        THEN [store |-> s, outcome |-> "skipped"]
        ELSE [store |-> PutObject(s, k, b, metadata), outcome |-> "written"]

NoResult == <<>>

\* get_file_bytes_and_metadata answering an empty pair for a missing key.
GetFileSilently(s, k) ==
    IF k \in DOMAIN s
    THEN [outcome |-> "returned", result |-> <<s[k].payload, s[k].meta>>]
    ELSE [outcome |-> "returned", result |-> <<0, NoMeta>>]

\* MinioHandler.get_file_bytes_and_metadata: get_object raises on a missing key
\* (nothing catches it), else the bytes and stat_object's metadata are returned.
GetFileBytesAndMetadata(s, k) ==
    IF k \in DOMAIN s
    THEN [outcome |-> "returned", result |-> <<s[k].payload, s[k].meta>>]
    ELSE [outcome |-> "raised", result |-> NoResult]

-----------------------------------------------------------------------------
(* The sequential client of the gateway *)

NoCall == [op |-> "none", key |-> <<>>, payload |-> 0, trace |-> 0,
           existed |-> FALSE, outcome |-> "none", result |-> NoResult]

InitStore == [k \in {PlaceholderKey} |-> Placeholder]

GwInit ==
    /\ store = InitStore
    /\ attached = [k \in {PlaceholderKey} |-> NoMeta]
    /\ last = NoCall
    /\ calls = 0

IdleWriters ==
    /\ wpc = [w \in {} |-> "done"]
    /\ wkey = [w \in {} |-> <<>>]
    /\ wpayload = [w \in {} |-> 0]
    /\ wlist = [w \in {} |-> <<>>]

IdleCtor ==
    /\ ipc = "constructed"
    /\ ilog = <<>>
    /\ ienv = [auth |-> "ok"]

\* FS_filter_and_clean not called yet.
NoFS == [pc |-> "idle", run |-> 0, years |-> <<>>, files |-> <<>>, idx |-> 0,
         returned |-> <<>>, log |-> <<>>, error |-> "none"]

IdleFS == fs = NoFS

\* FS_enrich, the metrics derivation, FS_full_etl, macro_data_full_etl and the
\* RAG upload not called yet; nothing cached.
NoEnrich  == [pc |-> "idle", run |-> 0, paths |-> <<>>, puts |-> <<>>]
NoMetrics == [pc |-> "idle", run |-> 0, paths |-> <<>>, puts |-> <<>>]
NoCache   == [k \in {} |-> <<>>]
NoEtl     == [pc |-> "idle"]
NoB3      == [pc |-> "idle", run |-> 0, log |-> <<>>]
NoRag     == [pc |-> "idle", run |-> 0, documents |-> <<>>, log |-> <<>>]

IdleDownstream ==
    /\ en = NoEnrich
    /\ gm = NoMetrics
    /\ cache = NoCache
    /\ etl = NoEtl
    /\ b3 = NoB3
    /\ rag = NoRag

Init ==
    /\ GwInit
    /\ IdleWriters
    /\ IdleCtor
    /\ IdleFS
    /\ IdleDownstream

PutCall ==
    \E k \in PutKeys, b \in Payloads, t \in TraceIds :
        LET r == SaveFileToBucket(store, k, b, t, GenericDocType, NoAggType) IN
        /\ calls < MaxCalls
        /\ store' = r.store
        /\ attached' = IF r.outcome = "written"
                       THEN [x \in DOMAIN attached \cup {k} |->
                                IF x = k THEN CreatePutObjMetadata(b, t, GenericDocType, NoAggType)
                                ELSE attached[x]]
                       ELSE attached
        /\ last' = [op |-> "put", key |-> k, payload |-> b, trace |-> t,
                    existed |-> k \in DOMAIN store,
                    outcome |-> r.outcome, result |-> NoResult]
        /\ calls' = calls + 1
        /\ UNCHANGED <<wrVars, ctorVars, fs, dsVars>>

GetCall ==
    \E k \in Keys :
        LET r == GetFileBytesAndMetadata(store, k) IN
        /\ calls < MaxCalls
        /\ last' = [op |-> "get", key |-> k, payload |-> 0, trace |-> 0,
                    existed |-> k \in DOMAIN store,
                    outcome |-> r.outcome, result |-> r.result]
        /\ calls' = calls + 1
        /\ UNCHANGED <<store, attached, wrVars, ctorVars, fs, dsVars>>

Next == PutCall \/ GetCall

Spec == Init /\ [][Next]_vars

-----------------------------------------------------------------------------
(* Properties of the gateway under its sequential client (Spec) *)

\* The artifacts stored directly in a folder that carry the hash of payload b.
ArtifactsWithHash(s, folder, b) ==
    {k \in DOMAIN s : Parent(k) = folder /\ s[k].meta.file_hash = FileHash(b)}

\* A step that is a put following a put, with the same bytes.
SameBytesPutAgain ==
    /\ last.op = "put"
    /\ last'.op = "put"
    /\ calls' = calls + 1
    /\ last'.payload = last.payload

\* C1: putting the same bytes twice into the same destination folder leaves
\* exactly one artifact with that content hash in the folder, and the second
\* call is skipped and leaves the whole store as it was.
C1_IdempotentPut ==
    [][ (SameBytesPutAgain /\ Parent(last'.key) = Parent(last.key))
        => /\ last'.outcome = "skipped"
           /\ store' = store
           /\ Cardinality(ArtifactsWithHash(store', Parent(last.key), last.payload)) = 1 ]_vars

\* C2: identical bytes put to keys of two distinct folders are both stored
\* (when the second folder holds no artifact with that hash, the second put
\* writes): the dedup check looks at the destination folder only.
C2_FolderScopedDedup ==
    [][ ( /\ SameBytesPutAgain
          /\ last.outcome = "written"
          /\ Parent(last'.key) # Parent(last.key)
          /\ ArtifactsWithHash(store, Parent(last'.key), last.payload) = {} )
        => /\ last'.outcome = "written"
           /\ last.key \in DOMAIN store' /\ store'[last.key].payload = last.payload
           /\ last'.key \in DOMAIN store' /\ store'[last'.key].payload = last.payload ]_vars

\* C3: no destination folder holds two artifacts with the same content hash.
C3_NoDuplicateHashInFolder ==
    \A k1, k2 \in DOMAIN store :
        ( /\ k1 # k2
          /\ Parent(k1) = Parent(k2)
          /\ store[k1].meta.file_hash # NoHash )
        => store[k1].meta.file_hash # store[k2].meta.file_hash

\* A re-put with different bytes to an existing key was written, and its folder
\* holds two artifacts.
C3_Witness ==
    /\ last.op = "put" /\ last.existed /\ last.outcome = "written"
    /\ \E k \in DOMAIN store :
          /\ k # last.key
          /\ Parent(k) = Parent(last.key)
          /\ store[k].meta.file_hash # NoHash

\* C5: once an artifact is stored at a key, no later call changes the payload
\* or the provenance visible at that key.
C5_ArtifactsImmutable ==
    [][ \A k \in DOMAIN store : k \in DOMAIN store' /\ store'[k] = store[k] ]_vars

\* C6: a get of a missing key raises and returns nothing; a get of a stored key
\* returns the payload with the provenance its put attached.
C6_GetMissingRaises ==
    last.op = "get" =>
        IF last.key \in DOMAIN store
        THEN /\ last.outcome = "returned"
             /\ last.result = <<store[last.key].payload, attached[last.key]>>
        ELSE /\ last.outcome = "raised"
             /\ last.result = NoResult

\* A get of a key that is not stored, in a store that holds artifacts.
C6_Witness ==
    /\ last.op = "get"
    /\ last.key \notin DOMAIN store
    /\ last.outcome = "raised"
    /\ \E k \in DOMAIN store : store[k].meta.file_hash # NoHash

-----------------------------------------------------------------------------
(* Two concurrent writers inside save_file_to_bucket (SpecConc).  Each writer  *)
(* runs the method's steps one client call at a time: list_objects, then one   *)
(* stat_object per listed path, then put_object.                               *)

Writers == {1, 2}

ConcInit ==
    /\ GwInit
    /\ wpc = [w \in Writers |-> "list"]
    /\ wkey \in [Writers -> PutKeys]
    /\ wpayload \in [Writers -> Payloads]
    /\ wlist = [w \in Writers |-> <<>>]
    /\ IdleCtor
    /\ IdleFS
    /\ IdleDownstream

\* lines 152-158: list_obj_ret = client.list_objects(...); file_paths = [...]
WList(w) ==
    /\ wpc[w] = "list"
    /\ wlist' = [wlist EXCEPT ![w] = FilePaths(ListObjects(store, Parent(wkey[w])))]
    /\ wpc' = [wpc EXCEPT ![w] = "stat"]
    /\ UNCHANGED <<store, gwVars, wkey, wpayload, ctorVars, fs, dsVars>>

\* lines 160-166: one turn of the loop: stat_object of the next path, return on a match
WStat(w) ==
    /\ wpc[w] = "stat"
    /\ wlist[w] # <<>>
    /\ IF StatHash(store, Head(wlist[w])) = FileHash(wpayload[w])
       THEN /\ wpc' = [wpc EXCEPT ![w] = "skipped"]
            /\ UNCHANGED wlist
       ELSE /\ wlist' = [wlist EXCEPT ![w] = Tail(wlist[w])]
            /\ UNCHANGED wpc
    /\ UNCHANGED <<store, gwVars, wkey, wpayload, ctorVars, fs, dsVars>>

\* lines 168-174: the loop found no match: client.put_object(...)
WPut(w) ==
    /\ wpc[w] = "stat"
    /\ wlist[w] = <<>>
    /\ store' = PutObject(store, wkey[w], wpayload[w], 
                        CreatePutObjMetadata(wpayload[w], w, GenericDocType, NoAggType))
    /\ wpc' = [wpc EXCEPT ![w] = "written"]
    /\ UNCHANGED <<gwVars, wkey, wpayload, wlist, ctorVars, fs, dsVars>>

ConcNext == \E w \in Writers : WList(w) \/ WStat(w) \/ WPut(w)

SpecConc == ConcInit /\ [][ConcNext]_vars

\* C4: two concurrent writers of identical bytes to different keys of one
\* folder leave at most one artifact with that content hash in the folder.
C4_ConcurrentDedupSafe ==
    ( /\ \A w \in Writers : wpc[w] \in {"written", "skipped"}
      /\ wpayload[1] = wpayload[2]
      /\ wkey[1] # wkey[2]
      /\ Parent(wkey[1]) = Parent(wkey[2]) )
    => Cardinality(ArtifactsWithHash(store, Parent(wkey[1]), wpayload[1])) <= 1

-----------------------------------------------------------------------------
(* MinioHandler.__init__ and create_and_configure_bucket (SpecCtor), one       *)
(* client call per step.  ienv.auth says whether the server accepts the        *)
(* credentials; every later call may raise S3Error.                            *)

\* prefixes of create_and_configure_bucket, as the placeholder keys they give
PlaceholderKeys ==
    << <<"bronze", "raw", ".placeholder">>,
       <<"bronze", "landing", ".placeholder">>,
       <<"silver", "cleaned", ".placeholder">>,
       <<"silver", "enriched", ".placeholder">>,
       <<"gold", "export", ".placeholder">>,
       <<"gold", "serving", ".placeholder">>,
       <<"gold", "documents", ".placeholder">>,
       <<"logs", ".placeholder">> >>

EmptyStore == [k \in {} |-> Placeholder]

\* The bucket a constructor finds: none, or one laid out by an earlier construction.
FoundStore(bucket) == IF bucket THEN InitStore ELSE EmptyStore

CtorInit ==
    /\ ipc = "list_buckets"
    /\ ilog = <<>>
    /\ \E a \in {"ok", "denied"}, b \in BOOLEAN :
          /\ ienv = [auth |-> a, bucket |-> b, created |-> FALSE,
                     versioned |-> FALSE, next |-> 1]
          /\ store = FoundStore(b)
    /\ attached = EmptyStore
    /\ last = NoCall
    /\ calls = 0
    /\ IdleWriters
    /\ IdleFS
    /\ IdleDownstream

\* The constructor going on after a failed list_buckets (no exit).
AfterListBucketsNoExit(raised) == "bucket_exists"

\* lines 28-34: except S3Error: logger.error(...); exit(1)
AfterListBuckets(raised) == IF raised THEN "exited" ELSE "bucket_exists"

CtorListBuckets ==
    /\ ipc = "list_buckets"
    /\ ilog' = Append(ilog, "list_buckets")
    /\ ipc' = AfterListBuckets(ienv.auth = "denied")
    /\ UNCHANGED <<store, gwVars, wrVars, ienv, fs, dsVars>>

\* lines 36-45
CtorBucketExists ==
    /\ ipc = "bucket_exists"
    /\ ilog' = Append(ilog, "bucket_exists")
    /\ \E raised \in BOOLEAN :
          ipc' = IF raised THEN "exited"
                 ELSE IF ienv.bucket THEN "constructed" ELSE "make_bucket"
    /\ UNCHANGED <<store, gwVars, wrVars, ienv, fs, dsVars>>

\* line 49
CtorMakeBucket ==
    /\ ipc = "make_bucket"
    /\ ilog' = Append(ilog, "make_bucket")
    /\ \E raised \in BOOLEAN :
          IF raised
          THEN ipc' = "exited" /\ UNCHANGED ienv
          ELSE ipc' = "set_bucket_versioning"
               /\ ienv' = [ienv EXCEPT !.bucket = TRUE, !.created = TRUE]
    /\ UNCHANGED <<store, gwVars, wrVars, fs, dsVars>>

\* line 53
CtorSetVersioning ==
    /\ ipc = "set_bucket_versioning"
    /\ ilog' = Append(ilog, "set_bucket_versioning")
    /\ \E raised \in BOOLEAN :
          IF raised
          THEN ipc' = "exited" /\ UNCHANGED ienv
          ELSE ipc' = "get_bucket_versioning"
               /\ ienv' = [ienv EXCEPT !.versioned = TRUE]
    /\ UNCHANGED <<store, gwVars, wrVars, fs, dsVars>>

\* line 54
CtorGetVersioning ==
    /\ ipc = "get_bucket_versioning"
    /\ ilog' = Append(ilog, "get_bucket_versioning")
    /\ \E raised \in BOOLEAN :
          ipc' = IF raised THEN "exited" ELSE "placeholders"
    /\ UNCHANGED <<store, gwVars, wrVars, ienv, fs, dsVars>>

\* lines 76-89: one turn of the loop; an S3Error is logged and the loop goes on
CtorPlaceholder ==
    /\ ipc = "placeholders"
    /\ ilog' = Append(ilog, "put_object")
    /\ \E raised \in BOOLEAN :
          store' = IF raised THEN store
                   ELSE [x \in DOMAIN store \cup {PlaceholderKeys[ienv.next]} |->
                            IF x = PlaceholderKeys[ienv.next] THEN Placeholder ELSE store[x]]
    /\ ienv' = [ienv EXCEPT !.next = ienv.next + 1]
    /\ ipc' = IF ienv.next = Len(PlaceholderKeys) THEN "constructed" ELSE "placeholders"
    /\ UNCHANGED <<gwVars, wrVars, fs, dsVars>>

CtorNext ==
    \/ CtorListBuckets
    \/ CtorBucketExists
    \/ CtorMakeBucket
    \/ CtorSetVersioning
    \/ CtorGetVersioning
    \/ CtorPlaceholder

SpecCtor == CtorInit /\ [][CtorNext]_vars

\* C7: when the credentials are refused, list_buckets is the only client call
\* ever made, it is made once, the process exits right after it, and no bucket
\* is created or versioned and no object written.
C7_AuthFailureFatal ==
    ienv.auth = "denied" =>
        /\ ilog \in {<<>>, <<"list_buckets">>}
        /\ ilog = <<"list_buckets">> => ipc = "exited"
        /\ ~ienv.created /\ ~ienv.versioned
        /\ store = FoundStore(ienv.bucket)

\* The constructor has exited on refused credentials, with no bucket there.
C7_Witness ==
    /\ ienv.auth = "denied"
    /\ ~ienv.bucket
    /\ ipc = "exited"
    /\ ilog = <<"list_buckets">>

-----------------------------------------------------------------------------
(* CVMETL.FS_filter_and_clean (SpecFS), one (year, aggregation, statement)     *)
(* combination per step.  A raw file is a CSV [cols, rows]; a file name is     *)
(* read as its "_"-separated parts, so that "BPA_con_2024" in file_path is     *)
(* a test for a run of consecutive parts.                                      *)

FormattedCnpj == "TARGET"    \* config.formatted_cnpj
OtherCnpj     == "OTHER"
Ultimo        == "ULTIMO"    \* EXERCISE_PERIOD_TO_CONSIDER
Penultimo     == "PENULTIMO"

\* The declared schema's column list, list(curr_document_schema.keys()).
Schema == <<"CNPJ_CIA", "DT_REFER", "GRUPO_DFP", "ESCALA_MOEDA", "ORDEM_EXERC",
            "DT_FIM_EXERC", "CD_CONTA", "VL_CONTA">>

\* A date, as year * 100 + month (the day plays no part in what is modelled).
Date(y, m)   == y * 100 + m
MonthOf(d)   == d % 100
YearOfDate(d) == d \div 100

\* Account codes (CD_CONTA) are strings of characters: str.startswith and ==
\* compare them character by character.
Acc1_01_01    == <<"1", ".", "0", "1", ".", "0", "1">>
Acc2_01_04    == <<"2", ".", "0", "1", ".", "0", "4">>
Acc2_02_01    == <<"2", ".", "0", "2", ".", "0", "1">>
Acc3_01       == <<"3", ".", "0", "1">>
Acc3_04_04    == <<"3", ".", "0", "4", ".", "0", "4">>
Acc3_05       == <<"3", ".", "0", "5">>
Acc3_06_02    == <<"3", ".", "0", "6", ".", "0", "2">>
Acc6_01_02    == <<"6", ".", "0", "1", ".", "0", "2">>
Acc6_01_02_02 == <<"6", ".", "0", "1", ".", "0", "2", ".", "0", "2">>
Acc6_02_01    == <<"6", ".", "0", "2", ".", "0", "1">>

\* ITR_FILE_PART_TO_DOCUMENT_TYPE, in its order
FileParts == <<"BPA", "BPP", "DFC_MI", "DRE">>

DocumentType(part) ==
    CASE part = "BPA"    -> "BALANCO_PATRIMONIAL_ATIVO"
      [] part = "BPP"    -> "BALANCO_PATRIMONIAL_PASSIVO"
      [] part = "DFC_MI" -> "FLUXO_DE_CAIXA_INDIRETO"
      [] part = "DRE"    -> "DRE"

\* FINANCIAL_STATEMENTS_GROUPING, in its order
AggParts == <<"con", "ind">>

AggregationType(aggPart) == IF aggPart = "con" THEN "CONSOLIDADO" ELSE "INDIVIDUAL"

PartTokens(part) == IF part = "DFC_MI" THEN <<"DFC", "MI">> ELSE <<part>>

\* The raw files of the model (members of the regulator's zips), in files_path order.
RawKeys ==
    << <<"bronze", "raw", "itr_cia_aberta_BPA_con_2024.csv">>,
       <<"bronze", "raw", "dfp_cia_aberta_BPA_con_2024.csv">>,
       <<"bronze", "raw", "itr_cia_aberta_BPA_ind_2024.csv">>,
       <<"bronze", "raw", "itr_cia_aberta_DFC_MD_con_2024.csv">>,
       <<"bronze", "raw", "itr_cia_aberta_DRE_con_2024.csv">> >>

\* The regulator's files of the model in the order an archive lists them, each
\* with the "_"-separated parts of its name.
RawFiles ==
    << [name |-> "itr_cia_aberta_2025.csv", tokens |-> <<"itr", "cia", "aberta", "2025">>],
       [name |-> "itr_cia_aberta_BPA_con_2025.csv", tokens |-> <<"itr", "cia", "aberta", "BPA", "con", "2025">>],
       [name |-> "itr_cia_aberta_BPA_ind_2025.csv", tokens |-> <<"itr", "cia", "aberta", "BPA", "ind", "2025">>],
       [name |-> "itr_cia_aberta_BPP_con_2025.csv", tokens |-> <<"itr", "cia", "aberta", "BPP", "con", "2025">>],
       [name |-> "itr_cia_aberta_BPP_ind_2025.csv", tokens |-> <<"itr", "cia", "aberta", "BPP", "ind", "2025">>],
       [name |-> "itr_cia_aberta_DFC_MI_con_2025.csv", tokens |-> <<"itr", "cia", "aberta", "DFC", "MI", "con", "2025">>],
       [name |-> "itr_cia_aberta_DFC_MI_ind_2025.csv", tokens |-> <<"itr", "cia", "aberta", "DFC", "MI", "ind", "2025">>],
       [name |-> "itr_cia_aberta_DRE_con_2025.csv", tokens |-> <<"itr", "cia", "aberta", "DRE", "con", "2025">>],
       [name |-> "itr_cia_aberta_DRE_ind_2025.csv", tokens |-> <<"itr", "cia", "aberta", "DRE", "ind", "2025">>],
       [name |-> "itr_cia_aberta_2024.csv", tokens |-> <<"itr", "cia", "aberta", "2024">>],
       [name |-> "itr_cia_aberta_BPA_con_2024.csv", tokens |-> <<"itr", "cia", "aberta", "BPA", "con", "2024">>],
       [name |-> "itr_cia_aberta_BPA_ind_2024.csv", tokens |-> <<"itr", "cia", "aberta", "BPA", "ind", "2024">>],
       [name |-> "itr_cia_aberta_BPP_con_2024.csv", tokens |-> <<"itr", "cia", "aberta", "BPP", "con", "2024">>],
       [name |-> "itr_cia_aberta_BPP_ind_2024.csv", tokens |-> <<"itr", "cia", "aberta", "BPP", "ind", "2024">>],
       [name |-> "itr_cia_aberta_DFC_MD_con_2024.csv", tokens |-> <<"itr", "cia", "aberta", "DFC", "MD", "con", "2024">>],
       [name |-> "itr_cia_aberta_DFC_MI_con_2024.csv", tokens |-> <<"itr", "cia", "aberta", "DFC", "MI", "con", "2024">>],
       [name |-> "itr_cia_aberta_DFC_MI_ind_2024.csv", tokens |-> <<"itr", "cia", "aberta", "DFC", "MI", "ind", "2024">>],
       [name |-> "itr_cia_aberta_DRE_con_2024.csv", tokens |-> <<"itr", "cia", "aberta", "DRE", "con", "2024">>],
       [name |-> "itr_cia_aberta_DRE_ind_2024.csv", tokens |-> <<"itr", "cia", "aberta", "DRE", "ind", "2024">>],
       [name |-> "itr_cia_aberta_2023.csv", tokens |-> <<"itr", "cia", "aberta", "2023">>],
       [name |-> "itr_cia_aberta_BPA_con_2023.csv", tokens |-> <<"itr", "cia", "aberta", "BPA", "con", "2023">>],
       [name |-> "itr_cia_aberta_BPA_ind_2023.csv", tokens |-> <<"itr", "cia", "aberta", "BPA", "ind", "2023">>],
       [name |-> "itr_cia_aberta_BPP_con_2023.csv", tokens |-> <<"itr", "cia", "aberta", "BPP", "con", "2023">>],
       [name |-> "itr_cia_aberta_BPP_ind_2023.csv", tokens |-> <<"itr", "cia", "aberta", "BPP", "ind", "2023">>],
       [name |-> "itr_cia_aberta_DFC_MI_con_2023.csv", tokens |-> <<"itr", "cia", "aberta", "DFC", "MI", "con", "2023">>],
       [name |-> "itr_cia_aberta_DFC_MI_ind_2023.csv", tokens |-> <<"itr", "cia", "aberta", "DFC", "MI", "ind", "2023">>],
       [name |-> "itr_cia_aberta_DRE_con_2023.csv", tokens |-> <<"itr", "cia", "aberta", "DRE", "con", "2023">>],
       [name |-> "itr_cia_aberta_DRE_ind_2023.csv", tokens |-> <<"itr", "cia", "aberta", "DRE", "ind", "2023">>],
       [name |-> "dfp_cia_aberta_2024.csv", tokens |-> <<"dfp", "cia", "aberta", "2024">>],
       [name |-> "dfp_cia_aberta_BPA_con_2024.csv", tokens |-> <<"dfp", "cia", "aberta", "BPA", "con", "2024">>],
       [name |-> "dfp_cia_aberta_2023.csv", tokens |-> <<"dfp", "cia", "aberta", "2023">>],
       [name |-> "dfp_cia_aberta_BPA_con_2023.csv", tokens |-> <<"dfp", "cia", "aberta", "BPA", "con", "2023">>] >>

\* The "_"-separated parts of a raw file's name.
FileTokens(k) == (CHOOSE f \in Seq2Set(RawFiles) : f.name = k[Len(k)]).tokens

\* sub in text, on parts
Contains(sub, text) ==
    \E i \in 1..(Len(text) - Len(sub) + 1) : SubSeq(text, i, i + Len(sub) - 1) = sub

\* A raw CSV of one of the kinds the model draws.
YearNumber(year) == CASE year = "2025" -> 2025 [] year = "2024" -> 2024 [] OTHER -> 2023

\* One account line of file k: an annual (DFP) file refers to December, a
\* quarterly (ITR) one to March; a former exercise ended a year earlier; the
\* statement group is the one the file's name tells.
Row(cnpj, ordem, k) ==
    LET tokens   == FileTokens(k)
        dt_refer == Date(YearNumber(tokens[Len(tokens)]), IF tokens[1] = "dfp" THEN 12 ELSE 3)
    IN  [CNPJ_CIA |-> cnpj, DT_REFER |-> dt_refer,
         GRUPO_DFP |-> SubSeq(tokens, 4, Len(tokens) - 1), ESCALA_MOEDA |-> "MIL", ORDEM_EXERC |-> ordem,
         DT_FIM_EXERC |-> IF ordem = Ultimo THEN dt_refer ELSE dt_refer - 100,
         CD_CONTA |-> CASE tokens[4] = "BPA" -> Acc1_01_01
                        [] tokens[4] = "BPP" -> Acc2_01_04
                        [] tokens[4] = "DFC" -> Acc6_01_02_02
                        [] OTHER             -> Acc3_01,
         VL_CONTA |-> 1000]

RawCsv(kind, k) ==
    [cols |-> CASE kind = "extra"     -> Schema \o <<"EXTRA">>
                [] kind = "missing"   -> SubSeq(Schema, 1, Len(Schema) - 1)
                [] kind = "reordered" -> <<Schema[2], Schema[1]>> \o SubSeq(Schema, 3, Len(Schema))
                [] OTHER              -> Schema,
     rows |-> CASE kind = "mixed"     -> <<Row(FormattedCnpj, Ultimo, k), Row(OtherCnpj, Ultimo, k),
                                           Row(FormattedCnpj, Penultimo, k)>>
                [] kind = "other"     -> <<Row(OtherCnpj, Ultimo, k)>>
                [] kind = "penultimo" -> <<Row(FormattedCnpj, Penultimo, k)>>
                [] OTHER              -> <<Row(FormattedCnpj, Ultimo, k)>>]

RawKinds(i) ==
    CASE i = 1 -> {"absent", "good", "mixed", "other", "penultimo", "extra", "missing", "reordered"}
      [] i = 2 -> {"absent", "good"}
      [] i = 3 -> {"absent", "good", "other", "reordered"}
      [] i = 4 -> {"good"}
      [] i = 5 -> {"absent", "good"}

YearChoices == { <<"2024">>, <<"2024", "2023">> }

\* The (year, aggregation part, file part) combinations in the order of the three loops.
NPerYear == Len(AggParts) * Len(FileParts)

Combination(years, i) ==
    [year |-> years[((i - 1) \div NPerYear) + 1],
     agg  |-> AggParts[(((i - 1) % NPerYear) \div Len(FileParts)) + 1],
     part |-> FileParts[((i - 1) % Len(FileParts)) + 1]]

NCombinations(years) == Len(years) * NPerYear

\* The selection with the aggregation and the year left out of the test.
SelectedFilesByPartOnly(files, c) ==
    SelectSeq(files, LAMBDA f : Contains(PartTokens(c.part), FileTokens(f)))

\* line 241: [file_path for file_path in files_path
\*            if curr_file_part + curr_agg_part + curr_year in file_path]
SelectedFiles(files, c) ==
    SelectSeq(files, LAMBDA f : Contains(PartTokens(c.part) \o <<c.agg>> \o <<c.year>>, FileTokens(f)))

\* The column check on the sets of names instead of the lists.
ColumnsMatchAsSets(cols, schema) == Seq2Set(cols) = Seq2Set(schema)

\* line 263: curr_file_df.columns.to_list() == list(curr_document_schema.keys())
ColumnsMatch(cols, schema) == cols = schema

\* pd.DataFrame()
EmptyDataFrame == [cols |-> <<>>, rows |-> <<>>]

\* pd.concat([joined_df, curr_file_df], ignore_index=True)
Concat(a, b) == [cols |-> IF a.cols = <<>> THEN b.cols ELSE a.cols, rows |-> a.rows \o b.rows]

\* df[name] = value, on one row
WithColumn(r, name, value) ==
    [c \in DOMAIN r \cup {name} |-> IF c = name THEN value ELSE r[c]]

\* Every row tagged as coming from a quarterly file.
OriginFileAlwaysItr(f) == "ITR"

\* line 273: "DFP" if "dfp_" in curr_file_path else "ITR"
OriginFile(f) == IF Contains(<<"dfp">>, SubSeq(FileTokens(f), 1, Len(FileTokens(f)) - 1))
                 THEN "DFP" ELSE "ITR"

\* lines 265-273 on one parsed file
FilteredFrame(csv, f) ==
    LET last_rows == SelectSeq(csv.rows, LAMBDA r : r.CNPJ_CIA = FormattedCnpj
                                                    /\ r.ORDEM_EXERC = Ultimo)
    IN  [cols |-> csv.cols \o <<"ORIGIN_FILE">>,
         rows |-> [i \in 1..Len(last_rows) |->
                     WithColumn(last_rows[i], "ORIGIN_FILE", OriginFile(f))]]

\* lines 243-275: the loop over selected_files; status tells how it ended
RECURSIVE JoinFiles(_, _, _)
JoinFiles(s, files, joined_df) ==
    IF files = <<>> THEN [status |-> "ok", df |-> joined_df]
    ELSE LET f == Head(files)
             g == GetFileBytesAndMetadata(s, f)
         IN  IF g.outcome = "raised" THEN [status |-> "missing", df |-> joined_df]
             ELSE IF ~ColumnsMatch(g.result[1].cols, Schema)
                  THEN [status |-> "schema", df |-> joined_df]
             ELSE IF SelectSeq(g.result[1].rows, LAMBDA r : r.CNPJ_CIA = FormattedCnpj) = <<>>
                  THEN [status |-> "empty", df |-> joined_df]
             ELSE JoinFiles(s, Tail(files), Concat(joined_df, FilteredFrame(g.result[1], f)))

\* fmts.MedallionLayer members, as <layer>/<sub-layer>
SilverCleaned  == <<"silver", "cleaned">>
SilverEnriched == <<"silver", "enriched">>
GoldServing    == <<"gold", "serving">>
GoldExport     == <<"gold", "export">>

\* config.get_bucket_save_file_path(layer, source, doc_type, agg, ref_date):
\* <layer>/<sub-layer>/<source>/<doc_type>/<file>, the file named by type, aggregation and date.
GetBucketSaveFilePath(layer, docType, aggType, refDate) ==
    layer \o <<"cvm", docType, <<docType, aggType, refDate>>>>

\* config.convert_pandas_df_to_parquet_bytes
ConvertToParquetBytes(df) == <<"parquet", df>>

\* lines 235-300: one turn of the innermost loop on bucket s: select, join,
\* persist under the combination's key
CombinationStep(s, files, c, trace) ==
    LET selected == SelectedFiles(files, c)
        j        == JoinFiles(s, selected, EmptyDataFrame)
        path     == GetBucketSaveFilePath(SilverCleaned, DocumentType(c.part),
                                          AggregationType(c.agg), c.year)
        r        == SaveFileToBucket(s, path, ConvertToParquetBytes(j.df), trace,
                                     DocumentType(c.part), AggregationType(c.agg))
    IN  [status |-> j.status, store |-> IF j.status = "ok" THEN r.store ELSE s,
         path |-> path, selected |-> selected, df |-> j.df, outcome |-> r.outcome]

\* lines 205-309: FS_filter_and_clean(files_path, years_to_process) as one call,
\* from combination idx on; acc holds what the earlier combinations did
RECURSIVE FSFilterAndClean(_, _, _, _, _, _)
FSFilterAndClean(s, files, years, idx, trace, acc) ==
    IF idx > NCombinations(years)
    THEN [status |-> "ok", store |-> s, returned |-> acc.returned,
          reads |-> acc.reads, puts |-> acc.puts]
    ELSE LET step == CombinationStep(s, files, Combination(years, idx), trace)
         IN  IF step.status # "ok"
             THEN [status |-> step.status, store |-> s, returned |-> <<>>,
                   reads |-> acc.reads \o step.selected, puts |-> acc.puts]
             ELSE FSFilterAndClean(step.store, files, years, idx + 1, trace,
                                   [returned |-> Append(acc.returned, step.path),
                                    reads |-> acc.reads \o step.selected,
                                    puts |-> Append(acc.puts, [key |-> step.path,
                                                               outcome |-> step.outcome])])

RawStores ==
    { s \in [Seq2Set(RawKeys) -> {"absent", "good", "mixed", "other", "penultimo",
                                  "extra", "missing", "reordered"}] :
        \A i \in 1..Len(RawKeys) : s[RawKeys[i]] \in RawKinds(i) }

FSInit ==
    /\ \E kinds \in RawStores :
          store = [k \in {x \in Seq2Set(RawKeys) : kinds[x] # "absent"} |->
                      [payload |-> RawCsv(kinds[k], k),
                       meta |-> CreatePutObjMetadata(RawCsv(kinds[k], k), 0, GenericDocType, NoAggType)]]
    /\ attached = EmptyStore
    /\ last = NoCall
    /\ calls = 0
    /\ IdleWriters
    /\ IdleCtor
    /\ IdleFS
    /\ IdleDownstream

\* FS_filter_and_clean(files_path, years_to_process) is called with the keys bronze/raw holds.
FSStart ==
    /\ fs.pc \in {"idle", "returned", "raised"}
    /\ fs.run < MaxRuns
    /\ \E years \in YearChoices :
          fs' = [pc |-> "running", run |-> fs.run + 1, years |-> years,
                 files |-> SelectSeq(RawKeys, LAMBDA k : k \in DOMAIN store),
                 idx |-> 1, returned |-> <<>>, log |-> <<>>, error |-> "none"]
    /\ UNCHANGED <<store, gwVars, wrVars, ctorVars, dsVars>>

\* lines 235-305: one turn of the innermost combination loop (and the return
\* after the last one)
FSCombination ==
    /\ fs.pc = "running"
    /\ LET c    == Combination(fs.years, fs.idx)
           step == CombinationStep(store, fs.files, c, fs.run)
       IN  IF step.status # "ok"
           THEN /\ fs' = [fs EXCEPT !.pc = "raised", !.error = step.status]
                /\ UNCHANGED store
           ELSE /\ store' = step.store
                /\ fs' = [fs EXCEPT
                            !.pc = IF fs.idx = NCombinations(fs.years) THEN "returned" ELSE "running",
                            !.idx = fs.idx + 1,
                            !.returned = Append(fs.returned, step.path),
                            !.log = Append(fs.log, [combination |-> c, key |-> step.path,
                                                    consumed |-> step.selected,
                                                    nrows |-> Len(step.df.rows),
                                                    outcome |-> step.outcome])]
    /\ UNCHANGED <<gwVars, wrVars, ctorVars, dsVars>>

FSNext == FSStart \/ FSCombination

SpecFS == FSInit /\ [][FSNext]_vars

-----------------------------------------------------------------------------
(* Properties of the reconciliation stage (SpecFS) *)

\* The raw files of files_path that combination i selects.
ConsumedBy(i) == Seq2Set(SelectedFiles(fs.files, Combination(fs.years, i)))

\* C8 (as stated): a successful call writes one table per combination.  Stated
\* on the combinations whose table has rows: the put of each of them is written.
C8_OneTableWrittenPerCombination ==
    fs.pc = "returned" =>
        \A i \in 1..Len(fs.log) : fs.log[i].nrows > 0 => fs.log[i].outcome = "written"

\* C8 (amended): a successful call makes exactly one put and returns exactly
\* one key per combination, in loop order, |years| x 2 x 4 distinct keys in
\* all, and no raw file is consumed by two combinations.
C8_OnePutAndKeyPerCombination ==
    fs.pc = "returned" =>
        /\ Len(fs.returned) = Len(fs.years) * 2 * 4
        /\ Len(fs.log) = Len(fs.returned)
        /\ \A i \in 1..Len(fs.log) :
              /\ fs.log[i].combination = Combination(fs.years, i)
              /\ fs.log[i].key = fs.returned[i]
              /\ fs.log[i].outcome \in {"written", "skipped"}
        /\ \A i, j \in 1..Len(fs.returned) :
              i # j => /\ fs.returned[i] # fs.returned[j]
                       /\ ConsumedBy(i) \cap ConsumedBy(j) = {}

\* A second successful call whose put of a two-file table was skipped as a duplicate.
C8_Witness ==
    /\ fs.pc = "returned"
    /\ fs.run = 2
    /\ \E i \in 1..Len(fs.log) :
          /\ fs.log[i].outcome = "skipped"
          /\ Len(fs.log[i].consumed) = 2
          /\ fs.log[i].nrows = 2

\* Combination i selects a stored raw file whose column list is not the schema's.
MismatchAt(i) ==
    \E f \in ConsumedBy(i) : f \in DOMAIN store /\ store[f].payload.cols # Schema

\* C9: when a combination selects a file whose columns differ from the schema
\* (extra, missing or reordered), the call never returns, it raises at that
\* combination at the latest, and no table is written for that combination or
\* a later one.
C9_SchemaMismatchFatal ==
    fs.pc # "idle" =>
        \A i \in 1..NCombinations(fs.years) :
            MismatchAt(i) =>
                /\ fs.pc \in {"running", "raised"}
                /\ fs.idx <= i
                /\ Len(fs.log) < i
                /\ Len(fs.returned) < i
                /\ fs.pc = "raised" => fs.error # "none"

\* The call raised on a schema mismatch after it wrote the tables of earlier combinations.
C9_Witness ==
    /\ fs.pc = "raised"
    /\ fs.error = "schema"
    /\ fs.idx > 1
    /\ MismatchAt(fs.idx)
    /\ \E i \in 1..Len(fs.log) : fs.log[i].outcome = "written"

\* C10: every table the stage persists has at least one row (an empty result
\* raises instead).
C10_NoEmptyTablePersisted ==
    \A k \in DOMAIN store :
        k[1] = "silver" => Len(store[k].payload[2].rows) >= 1

\* The raw file's key contains "dfp_".
KeyContainsDfp(f) == \E i \in 1..(Len(FileTokens(f)) - 1) : FileTokens(f)[i] = "dfp"

\* The rows of the raw files that belong to the company and to the final
\* exercise period, in file order, each with the tag of the file it came from.
RECURSIVE RowsTaggedByFile(_, _)
RowsTaggedByFile(s, files) ==
    IF files = <<>> THEN <<>>
    ELSE LET f    == Head(files)
             kept == SelectSeq(s[f].payload.rows,
                               LAMBDA r : r.CNPJ_CIA = FormattedCnpj /\ r.ORDEM_EXERC = Ultimo)
         IN  [i \in 1..Len(kept) |->
                 WithColumn(kept[i], "ORIGIN_FILE", IF KeyContainsDfp(f) THEN "DFP" ELSE "ITR")]
             \o RowsTaggedByFile(s, Tail(files))

\* C11: every row of every table the stage persisted is a row of the configured
\* company with the final exercise flag and an origin tag, and the rows of a
\* table the running call wrote are the matching final rows of the files it
\* consumed, tagged DFP exactly when the file's key contains "dfp_" and ITR otherwise.
C11_StatementRowInvariant ==
    /\ \A k \in DOMAIN store :
          k[1] = "silver" =>
              \A i \in 1..Len(store[k].payload[2].rows) :
                  LET r == store[k].payload[2].rows[i]
                  IN  /\ r.CNPJ_CIA = FormattedCnpj
                      /\ r.ORDEM_EXERC = Ultimo
                      /\ r.ORIGIN_FILE \in {"DFP", "ITR"}
    /\ \A i \in 1..Len(fs.log) :
          fs.log[i].outcome = "written" =>
              /\ fs.log[i].key \in DOMAIN store
              /\ store[fs.log[i].key].payload[2].rows = RowsTaggedByFile(store, fs.log[i].consumed)

\* A written table that joins a row of an annual file and a row of a quarterly
\* file, out of a quarterly file that also held rows to drop.
C11_Witness ==
    \E i \in 1..Len(fs.log) :
        /\ fs.log[i].outcome = "written"
        /\ Len(fs.log[i].consumed) = 2
        /\ Len(store[fs.log[i].consumed[1]].payload.rows) = 3
        /\ {store[fs.log[i].key].payload[2].rows[n].ORIGIN_FILE : n \in 1..2} = {"DFP", "ITR"}

-----------------------------------------------------------------------------
(* CVMETL.FS_enrich: silver/cleaned -> silver/enriched.  A float is            *)
(* [nan, v]: NaN is the value pandas gives where an operand is missing.        *)

NaN    == [nan |-> TRUE, v |-> 0]
Num(n) == [nan |-> FALSE, v |-> n]

\* lines 330-335: ESCALA_MOEDA_MAPPING
EscalaMoedaMapping ==
    [u \in {"UNIDADE", "MIL", "MILHOES", "MILHÕES"} |->
        CASE u = "UNIDADE" -> 1
          [] u = "MIL"     -> 1000
          [] OTHER         -> 1000000]

\* Series.map(ESCALA_MOEDA_MAPPING): NaN for a value that is not a key of the dict
MapScale(unit) ==
    IF unit \in DOMAIN EscalaMoedaMapping THEN Num(EscalaMoedaMapping[unit]) ELSE NaN

\* The adjusted value left at the raw value.
AdjustedValueUnscaled(vl_conta, unit) == Num(vl_conta)

\* line 356: VL_CONTA * ESCALA_MOEDA.map(ESCALA_MOEDA_MAPPING)
AdjustedValue(vl_conta, unit) ==
    IF MapScale(unit).nan THEN NaN ELSE Num(vl_conta * MapScale(unit).v)

\* fmts.get_quarter: month <= 3 -> 1, <= 6 -> 2, <= 9 -> 3, else 4
GetQuarter(d) ==
    IF MonthOf(d) <= 3 THEN 1 ELSE IF MonthOf(d) <= 6 THEN 2 ELSE IF MonthOf(d) <= 9 THEN 3 ELSE 4

\* fmts.create_ref_date: the date as the text used in keys
CreateRefDate(d) == ToString(d)

\* fmts.DocumentTypes.DEMONSTRATIVOS_FINANCEIROS_FINAL
DfsFinal == "DEMONSTRATIVOS_FINANCEIROS_FINAL"

\* df[c] = v for every column c of extra, on one row
WithColumns(r, extra) ==
    [c \in DOMAIN r \cup DOMAIN extra |-> IF c \in DOMAIN extra THEN extra[c] ELSE r[c]]

\* lines 356-376 on one row of a table whose metadata is meta
EnrichedRow(r, meta, trace, last_update_date) ==
    LET enr == [enr_adjusted_account_value |-> AdjustedValue(r.VL_CONTA, r.ESCALA_MOEDA),
                enr_last_updated_date      |-> last_update_date,
                enr_origin_document_type   |-> meta.document_type,
                enr_ingestion_trace_id     |-> trace,
                enr_source                 |-> "cvm",
                enr_aggregation_type       |-> meta.aggregation_type,
                enr_quarter                |-> GetQuarter(r.DT_FIM_EXERC),
                enr_year                   |-> YearOfDate(r.DT_FIM_EXERC)]
        row == WithColumns(r, enr)
    IN  IF meta.document_type = "BALANCO_PATRIMONIAL_ATIVO"
        THEN WithColumn(row, "enr_account_type", "ATIVO")
        ELSE IF meta.document_type = "BALANCO_PATRIMONIAL_PASSIVO"
             THEN WithColumn(row, "enr_account_type", "PASSIVO")
             ELSE row

\* The enr_ columns, after the table's own
EnrColumns ==
    <<"enr_adjusted_account_value", "enr_last_updated_date", "enr_origin_document_type",
      "enr_ingestion_trace_id", "enr_source", "enr_aggregation_type", "enr_quarter",
      "enr_year", "enr_account_type">>

\* The dict holding nothing but the last item set.
DictSetSingle(d, key, df) == <<[key |-> key, df |-> df]>>

\* d[key] = df on a dict kept as the sequence of its items in insertion order
DictSet(d, key, df) ==
    IF \E i \in 1..Len(d) : d[i].key = key
    THEN [i \in 1..Len(d) |-> IF d[i].key = key THEN [key |-> key, df |-> df] ELSE d[i]]
    ELSE Append(d, [key |-> key, df |-> df])

\* pd.concat(d, ignore_index=True) of a dict that has items
RECURSIVE PdConcat(_)
PdConcat(d) ==
    IF d = <<>> THEN EmptyDataFrame ELSE Concat(d[1].df, PdConcat(Tail(d)))

\* lines 342-386: the loop over silver_cleaned_files_path.  acc is
\* [consolidado, individual, reads]; status tells how the loop ended.
RECURSIVE EnrichFiles(_, _, _, _, _)
EnrichFiles(s, paths, trace, last_update_date, acc) ==
    IF paths = <<>> THEN [status |-> "ok", acc |-> acc]
    ELSE LET curr_file_path == Head(paths)
             g    == GetFileBytesAndMetadata(s, curr_file_path)
             read == [acc EXCEPT !.reads = Append(acc.reads, curr_file_path)]
         IN  IF g.outcome = "raised" THEN [status |-> "missing", acc |-> read]
             ELSE LET df   == g.result[1][2]
                      meta == g.result[2]
                      enriched_df ==
                          [cols |-> df.cols \o EnrColumns,
                           rows |-> [i \in 1..Len(df.rows) |->
                                        EnrichedRow(df.rows[i], meta, trace, last_update_date)]]
                      dict_key == curr_file_path[Len(curr_file_path)]
                  IN  \* line 352: the table has no DT_FIM_EXERC column
                      IF ~Contains(<<"DT_FIM_EXERC">>, df.cols)
                      THEN [status |-> "no_column", acc |-> read]
                      ELSE EnrichFiles(s, Tail(paths), trace, last_update_date,
                              IF meta.aggregation_type = "INDIVIDUAL"
                              THEN [read EXCEPT !.individual = DictSet(@, dict_key, enriched_df)]
                              ELSE IF meta.aggregation_type = "CONSOLIDADO"
                                   THEN [read EXCEPT !.consolidado = DictSet(@, dict_key, enriched_df)]
                                   ELSE read)

\* Series.max() of a column of dates (a table with rows)
RECURSIVE MaxDate(_)
MaxDate(rows) ==
    IF Len(rows) = 1 THEN rows[1].DT_FIM_EXERC
    ELSE LET m == MaxDate(Tail(rows))
         IN  IF rows[1].DT_FIM_EXERC > m THEN rows[1].DT_FIM_EXERC ELSE m

\* lines 400-432: one turn of the loop that saves a joined table; r is what
\* the call has done so far
EnrichSave(r, curr_df, curr_agg, trace) ==
    IF r.status # "ok" THEN r
    ELSE IF curr_df.rows = <<>>
         THEN \* line 405: create_ref_date of the NaN an empty column's max() is
              [r EXCEPT !.status = "no_ref_date"]
         ELSE LET save_file_path == GetBucketSaveFilePath(SilverEnriched, DfsFinal, curr_agg,
                                                          CreateRefDate(MaxDate(curr_df.rows)))
                  w == SaveFileToBucket(r.store, save_file_path, ConvertToParquetBytes(curr_df),
                                        trace, DfsFinal, NoAggType)
              IN  [r EXCEPT !.store = w.store,
                            !.returned = Append(@, save_file_path),
                            !.puts = Append(@, [key |-> save_file_path, outcome |-> w.outcome,
                                                df |-> curr_df])]

\* CVMETL.FS_enrich(silver_cleaned_files_path): what the call does to the store
\* and how it ends (status "ok" = it returned `returned`, else it raised)
FSEnrich(s, paths, trace, last_update_date) ==
    LET loop == EnrichFiles(s, paths, trace, last_update_date,
                            [consolidado |-> <<>>, individual |-> <<>>, reads |-> <<>>])
        r0   == [status |-> loop.status, store |-> s, returned |-> <<>>, puts |-> <<>>,
                 reads |-> loop.acc.reads,
                 joined_individual_df |-> EmptyDataFrame, joined_consolidado_df |-> EmptyDataFrame]
    IN  IF loop.status # "ok" THEN r0
        \* lines 390-392: pd.concat raises on a dict without items
        ELSE IF loop.acc.consolidado = <<>> \/ loop.acc.individual = <<>>
             THEN [r0 EXCEPT !.status = "nothing_to_concat"]
             ELSE LET joined_consolidado_df == PdConcat(loop.acc.consolidado)
                      joined_individual_df  == PdConcat(loop.acc.individual)
                      r1 == [r0 EXCEPT !.joined_individual_df = joined_individual_df,
                                       !.joined_consolidado_df = joined_consolidado_df]
                  IN  EnrichSave(EnrichSave(r1, joined_individual_df, "INDIVIDUAL", trace),
                                 joined_consolidado_df, "CONSOLIDADO", trace)

-----------------------------------------------------------------------------
(* FS_enrich called on a bucket that holds silver/cleaned tables (SpecEnrich) *)

\* The silver/cleaned keys of the model, in the order FS_filter_and_clean returns them.
CleanedKeys ==
    << GetBucketSaveFilePath(SilverCleaned, "BALANCO_PATRIMONIAL_ATIVO", "CONSOLIDADO", "2024"),
       GetBucketSaveFilePath(SilverCleaned, "DRE", "CONSOLIDADO", "2024"),
       GetBucketSaveFilePath(SilverCleaned, "BALANCO_PATRIMONIAL_ATIVO", "INDIVIDUAL", "2024"),
       GetBucketSaveFilePath(SilverCleaned, "DRE", "INDIVIDUAL", "2023") >>

\* A row FS_filter_and_clean kept.
CleanedRow(vl_conta, unit, code, date) ==
    [CNPJ_CIA |-> FormattedCnpj, DT_REFER |-> date, GRUPO_DFP |-> "con", ESCALA_MOEDA |-> unit,
     ORDEM_EXERC |-> Ultimo, DT_FIM_EXERC |-> date, CD_CONTA |-> code, VL_CONTA |-> vl_conta,
     ORIGIN_FILE |-> "ITR"]

\* A silver/cleaned table of one of the kinds the model draws.
CleanedTable(kind) ==
    CASE kind = "nocols" -> EmptyDataFrame
      [] OTHER ->
         [cols |-> Schema \o <<"ORIGIN_FILE">>,
          rows |-> CASE kind = "mil"     -> <<CleanedRow(1000, "MIL", Acc1_01_01, Date(2024, 3))>>
                     [] kind = "unidade" -> <<CleanedRow(1000, "UNIDADE", Acc3_01, Date(2024, 6))>>
                     [] kind = "milhoes" -> <<CleanedRow(2, "MILHÕES", Acc3_01, Date(2023, 12))>>
                     [] kind = "unknown" -> <<CleanedRow(1000, "MIL", Acc1_01_01, Date(2024, 3)),
                                              CleanedRow(5, "BILHAO", Acc1_01_01, Date(2024, 6))>>
                     [] kind = "two"     -> <<CleanedRow(1000, "UNIDADE", Acc1_01_01, Date(2024, 9)),
                                              CleanedRow(-50, "MILHOES", Acc1_01_01, Date(2023, 12))>>
                     [] OTHER            -> <<>>]

CleanedKinds(i) ==
    CASE i = 1 -> {"absent", "mil", "unknown", "two", "nocols"}
      [] i = 2 -> {"absent", "unidade", "norows"}
      [] i = 3 -> {"absent", "mil", "unknown", "norows"}
      [] i = 4 -> {"absent", "milhoes"}

CleanedStores ==
    { s \in [1..Len(CleanedKeys) -> {"absent", "mil", "unidade", "milhoes", "unknown", "two",
                                     "nocols", "norows"}] :
        \A i \in 1..Len(CleanedKeys) : s[i] \in CleanedKinds(i) }

\* The object FS_filter_and_clean leaves under key k for table df.
CleanedObject(k, df) ==
    [payload |-> ConvertToParquetBytes(df),
     meta |-> CreatePutObjMetadata(ConvertToParquetBytes(df), 0, k[4], k[5][2])]

\* config.get_formatted_last_update_date()
LastUpdateDate == "2024-05-01"

EnrichInit ==
    /\ \E kinds \in CleanedStores :
          store = [k \in {CleanedKeys[i] : i \in {n \in 1..Len(CleanedKeys) : kinds[n] # "absent"}} |->
                      CleanedObject(k, CleanedTable(kinds[CHOOSE i \in 1..Len(CleanedKeys) :
                                                              CleanedKeys[i] = k]))]
    /\ attached = EmptyStore
    /\ last = NoCall
    /\ calls = 0
    /\ IdleWriters
    /\ IdleCtor
    /\ IdleFS
    /\ IdleDownstream

\* The key lists the model calls FS_enrich with: every key of the model, the
\* keys the bucket holds, and the consolidated ones among them.
EnrichInputs(s) ==
    { CleanedKeys,
      SelectSeq(CleanedKeys, LAMBDA k : k \in DOMAIN s),
      SelectSeq(CleanedKeys, LAMBDA k : k \in DOMAIN s /\ k[5][2] = "CONSOLIDADO") }

\* One call of FS_enrich, whole.
EnrichCall ==
    /\ en.run < MaxRuns
    /\ \E paths \in EnrichInputs(store), t \in TraceIds :
          LET r == FSEnrich(store, paths, t, LastUpdateDate)
          IN  /\ store' = r.store
              /\ en' = [pc |-> IF r.status = "ok" THEN "returned" ELSE "raised",
                        run |-> en.run + 1, paths |-> paths, trace |-> t,
                        error |-> IF r.status = "ok" THEN "none" ELSE r.status,
                        returned |-> r.returned, puts |-> r.puts, reads |-> r.reads,
                        joined_individual_df |-> r.joined_individual_df,
                        joined_consolidado_df |-> r.joined_consolidado_df]
    /\ UNCHANGED <<gwVars, wrVars, ctorVars, fs, gm, cache, etl, sideVars>>

EnrichNext == EnrichCall

SpecEnrich == EnrichInit /\ [][EnrichNext]_vars

-----------------------------------------------------------------------------
(* Properties of the enrichment stage (SpecEnrich) *)

\* The silver/enriched tables the bucket holds.
PersistedEnriched ==
    {store[k].payload[2] : k \in {x \in DOMAIN store : x[1] = "silver" /\ x[2] = "enriched"}}

\* The multiplier of the specification's lookup table.
ScaleMultiplier(unit) ==
    CASE unit = "UNIDADE" -> 1
      [] unit = "MIL"     -> 1000
      [] unit = "MILHOES" -> 1000 * 1000
      [] unit = "MILHÕES" -> 1000 * 1000

\* C12: in every persisted enriched table, a row whose unit is in the lookup
\* table has enr_adjusted_account_value = VL_CONTA x multiplier(ESCALA_MOEDA);
\* 1000 in "MIL" gives 1,000,000 and 1000 in "UNIDADE" gives 1,000.
C12_ScaleCorrectness ==
    \A df \in PersistedEnriched :
        \A i \in 1..Len(df.rows) :
            LET r == df.rows[i]
            IN  r.ESCALA_MOEDA \in {"UNIDADE", "MIL", "MILHOES", "MILHÕES"} =>
                    /\ ~r.enr_adjusted_account_value.nan
                    /\ r.enr_adjusted_account_value.v = r.VL_CONTA * ScaleMultiplier(r.ESCALA_MOEDA)
                    /\ (r.VL_CONTA = 1000 /\ r.ESCALA_MOEDA = "MIL")
                          => r.enr_adjusted_account_value.v = 1000000
                    /\ (r.VL_CONTA = 1000 /\ r.ESCALA_MOEDA = "UNIDADE")
                          => r.enr_adjusted_account_value.v = 1000

\* A persisted enriched table holds a row of 1000 in "MIL" and one of 1000 in "UNIDADE".
C12_Witness ==
    \E df \in PersistedEnriched :
        \E i, j \in 1..Len(df.rows) :
            /\ df.rows[i].VL_CONTA = 1000 /\ df.rows[i].ESCALA_MOEDA = "MIL"
            /\ df.rows[j].VL_CONTA = 1000 /\ df.rows[j].ESCALA_MOEDA = "UNIDADE"

\* An input table of the last call holds a row whose unit is not in the lookup table.
UnmappedUnitInInput ==
    \E k \in Seq2Set(en.paths) :
        /\ k \in DOMAIN store
        /\ \E i \in 1..Len(store[k].payload[2].rows) :
              store[k].payload[2].rows[i].ESCALA_MOEDA \notin {"UNIDADE", "MIL", "MILHOES", "MILHÕES"}

\* C13: a call whose input holds a row with an unmapped unit raises and writes
\* no enriched table, so that every row of every persisted enriched table has a
\* defined adjusted value.
C13_UnmappedUnitFatal ==
    /\ en.pc # "idle" /\ UnmappedUnitInInput => en.pc = "raised" /\ en.puts = <<>>
    /\ \A df \in PersistedEnriched :
          \A i \in 1..Len(df.rows) : ~df.rows[i].enr_adjusted_account_value.nan

\* The number of rows of the tables under the keys of paths (distinct keys).
RECURSIVE InputRowCount(_, _)
InputRowCount(s, paths) ==
    IF paths = <<>> THEN 0
    ELSE Len(s[Head(paths)].payload[2].rows) + InputRowCount(s, Tail(paths))

-----------------------------------------------------------------------------
(* CVMETL.calculate_detailed_financials_quarterly: silver/enriched -> gold     *)

\* str.startswith
StartsWith(code, account_code) ==
    /\ Len(account_code) <= Len(code)
    /\ SubSeq(code, 1, Len(account_code)) = account_code

\* Series.sum(): NaN values are skipped
RECURSIVE SumValues(_)
SumValues(rows) ==
    IF rows = <<>> THEN 0
    ELSE (IF rows[1].enr_adjusted_account_value.nan THEN 0
          ELSE rows[1].enr_adjusted_account_value.v) + SumValues(Tail(rows))

\* get_account_value with the exact flag ignored: always a prefix match.
GetAccountValueByPrefix(group_df, account_code, exact) ==
    SumValues(SelectSeq(group_df, LAMBDA r : StartsWith(r.CD_CONTA, account_code)))

\* lines 461-468: get_account_value(group_df, account_code, exact)
GetAccountValue(group_df, account_code, exact) ==
    SumValues(SelectSeq(group_df, LAMBDA r : IF exact THEN r.CD_CONTA = account_code
                                             ELSE StartsWith(r.CD_CONTA, account_code)))

\* abs()
Abs(x) == IF x < 0 THEN -x ELSE x

\* The first figure, whatever it is.
InterestPaidNoFallback(interest_cf, interest_is) == interest_cf

\* line 494: interest_cf if interest_cf != 0 else interest_is
InterestPaid(interest_cf, interest_is) == IF interest_cf # 0 THEN interest_cf ELSE interest_is

\* The debt with the cash added to it.
NetDebtPlusCash(total_debt, cash) == total_debt + cash

\* line 489: net_debt = total_debt - cash
NetDebt(total_debt, cash) == total_debt - cash

\* lines 474-519: the record of one group
QuarterlyRecord(cnpj, dt_refer, group) ==
    LET revenue       == GetAccountValue(group, Acc3_01, TRUE)
        ebit          == GetAccountValue(group, Acc3_05, TRUE)
        depreciation  == GetAccountValue(group, Acc3_04_04, TRUE)
        debt_st       == GetAccountValue(group, Acc2_01_04, FALSE)
        debt_lt       == GetAccountValue(group, Acc2_02_01, FALSE)
        cash          == GetAccountValue(group, Acc1_01_01, TRUE)
        interest_cf   == GetAccountValue(group, Acc6_01_02_02, FALSE)
        interest_is   == GetAccountValue(group, Acc3_06_02, TRUE)
        capex         == GetAccountValue(group, Acc6_02_01, FALSE)
        wc_change     == GetAccountValue(group, Acc6_01_02, FALSE)
    IN  [issuer_cnpj |-> cnpj, date |-> dt_refer, quarter |-> GetQuarter(dt_refer),
         year |-> YearOfDate(dt_refer), revenue |-> revenue, ebitda |-> ebit + depreciation,
         ebit |-> ebit, depreciation |-> depreciation,
         net_debt |-> NetDebt(debt_st + debt_lt, cash), total_debt |-> debt_st + debt_lt,
         debt_short_term |-> debt_st, debt_long_term |-> debt_lt, cash |-> cash,
         interest_paid |-> Abs(InterestPaid(interest_cf, interest_is)),
         capex |-> Abs(capex), wc_change |-> wc_change]

\* The companies of the model, in the order groupby sorts them.
Companies == <<OtherCnpj, FormattedCnpj>>

\* The group keys of a table, in groupby's sorted order (company, then date).
RECURSIVE SortedDates(_)
SortedDates(dates) ==
    IF dates = {} THEN <<>>
    ELSE LET d == CHOOSE x \in dates : \A y \in dates : x <= y
         IN  <<d>> \o SortedDates(dates \ {d})

GroupKeysOf(rows, cnpj) ==
    LET dates == {rows[i].DT_REFER : i \in {n \in 1..Len(rows) : rows[n].CNPJ_CIA = cnpj}}
    IN  [i \in 1..Cardinality(dates) |-> <<cnpj, SortedDates(dates)[i]>>]

GroupKeys(rows) == GroupKeysOf(rows, Companies[1]) \o GroupKeysOf(rows, Companies[2])

\* Two records for every group.
QuarterlyResultsTwice(rows) ==
    LET keys == GroupKeys(rows) \o GroupKeys(rows)
    IN  [i \in 1..Len(keys) |->
            QuarterlyRecord(keys[i][1], keys[i][2],
                SelectSeq(rows, LAMBDA r : r.CNPJ_CIA = keys[i][1] /\ r.DT_REFER = keys[i][2]))]

\* lines 470-519: results, one record per group of df.groupby(['CNPJ_CIA', 'DT_REFER'])
QuarterlyResults(rows) ==
    LET keys == GroupKeys(rows)
    IN  [i \in 1..Len(keys) |->
            QuarterlyRecord(keys[i][1], keys[i][2],
                SelectSeq(rows, LAMBDA r : r.CNPJ_CIA = keys[i][1] /\ r.DT_REFER = keys[i][2]))]

\* The columns of a Quarterly Metric Record
QuarterlyColumns ==
    <<"issuer_cnpj", "date", "quarter", "year", "revenue", "ebitda", "ebit", "depreciation",
      "net_debt", "total_debt", "debt_short_term", "debt_long_term", "cash", "interest_paid",
      "capex", "wc_change">>

\* line 521: pd.DataFrame(results); without records the frame has no column
QuarterlyFrame(results) ==
    IF results = <<>> THEN EmptyDataFrame ELSE [cols |-> QuarterlyColumns, rows |-> results]

\* d[key] of a dict kept as a sequence of items
DictHas(d, key) == \E i \in 1..Len(d) : d[i].key = key
DictGet(d, key) == d[CHOOSE i \in 1..Len(d) : d[i].key = key].df

\* line 523: INDIVIDUAL if "_INDIVIDUAL_" in curr_df_file_path else CONSOLIDADO
AggTypeOfPath(path) ==
    IF path[Len(path)][2] = "INDIVIDUAL" THEN "INDIVIDUAL" ELSE "CONSOLIDADO"

\* lines 455-525: the loop over silver_enriched_files_path; acc is [dfs_map, reads]
RECURSIVE MetricsFiles(_, _, _)
MetricsFiles(s, paths, acc) ==
    IF paths = <<>> THEN [status |-> "ok", acc |-> acc]
    ELSE LET curr_df_file_path == Head(paths)
             g    == GetFileBytesAndMetadata(s, curr_df_file_path)
             read == [acc EXCEPT !.reads = Append(acc.reads, curr_df_file_path)]
         IN  IF g.outcome = "raised" THEN [status |-> "missing", acc |-> read]
             ELSE MetricsFiles(s, Tail(paths),
                     [read EXCEPT !.dfs_map =
                         DictSet(@, AggTypeOfPath(curr_df_file_path),
                                 QuarterlyFrame(QuarterlyResults(g.result[1][2].rows)))])

\* curr_df["date"].max() of a frame with rows
RECURSIVE MaxRecordDate(_)
MaxRecordDate(rows) ==
    IF Len(rows) = 1 THEN rows[1].date
    ELSE LET m == MaxRecordDate(Tail(rows))
         IN  IF rows[1].date > m THEN rows[1].date ELSE m

\* fmts.GoldServingTableNames.FINANCIALS_QUARTERLY.value, the cache key
FinancialsQuarterly == "financials_quarterly"

\* datetime.today() as save_to_cache formats it
Today == "today"

\* RedisHandler.save_to_cache: client.set(gold_table.value, json.dumps(save_dict))
SaveToCache(c, gold_table, data_dict, ref_date, trace_id, agg_type) ==
    [k \in DOMAIN c \cup {gold_table} |->
        IF k = gold_table
        THEN [data |-> data_dict,
              file_bucket_path |-> <<"gold", "serving", <<gold_table, agg_type>>>>,
              ref_data |-> ref_date, trace_id |-> trace_id]
        ELSE c[k]]

\* lines 527-561: the loop over dfs_map.items(); r is what the call has done so far
RECURSIVE MetricsSave(_, _, _)
MetricsSave(r, items, trace) ==
    IF items = <<>> \/ r.status # "ok" THEN r
    ELSE LET curr_agg_type == items[1].key
             curr_df       == items[1].df
         IN  IF curr_df.rows = <<>>
             THEN \* line 533: a frame without records has no "date" column
                  [r EXCEPT !.status = "no_column"]
             ELSE LET save_file_path ==
                          GetBucketSaveFilePath(GoldServing, DfsFinal, curr_agg_type,
                                                CreateRefDate(MaxRecordDate(curr_df.rows)))
                      w == SaveFileToBucket(r.store, save_file_path,
                                            ConvertToParquetBytes(curr_df), trace,
                                            DfsFinal, curr_agg_type)
                  IN  MetricsSave(
                         [r EXCEPT !.store = w.store,
                                   !.puts = Append(@, [key |-> save_file_path,
                                                       outcome |-> w.outcome,
                                                       agg |-> curr_agg_type, df |-> curr_df]),
                                   !.cache = SaveToCache(@, FinancialsQuarterly, curr_df.rows,
                                                         Today, trace, curr_agg_type),
                                   !.published = Append(@, curr_agg_type)],
                         Tail(items), trace)

\* The two sheets with the tables exchanged.
ExcelSheetsSwapped(dfs_map) ==
    [DFS_Consolidado |-> DictGet(dfs_map, "INDIVIDUAL"),
     DFS_Individual  |-> DictGet(dfs_map, "CONSOLIDADO")]

\* lines 565-567: the sheets "DFS Consolidado" and "DFS Individual"
ExcelSheets(dfs_map) ==
    [DFS_Consolidado |-> DictGet(dfs_map, "CONSOLIDADO"),
     DFS_Individual  |-> DictGet(dfs_map, "INDIVIDUAL")]

NoSheets == [DFS_Consolidado |-> EmptyDataFrame, DFS_Individual |-> EmptyDataFrame]

\* The workbook's bytes
ExcelBytes(sheets) == <<"xlsx", sheets>>

\* CVMETL.calculate_detailed_financials_quarterly(silver_enriched_files_path):
\* what the call does to the store and the cache and how it ends
CalculateDetailedFinancialsQuarterly(s, c, paths, trace) ==
    LET loop  == MetricsFiles(s, paths, [dfs_map |-> <<>>, reads |-> <<>>])
        r0    == [status |-> loop.status, store |-> s, cache |-> c, returned |-> <<>>,
                  reads |-> loop.acc.reads, puts |-> <<>>, published |-> <<>>,
                  sheets |-> NoSheets, export |-> <<>>]
        saved == MetricsSave(r0, loop.acc.dfs_map, trace)
    IN  IF saved.status # "ok" THEN saved
        \* lines 566-567: dfs_map[...] of an aggregation type no path gave
        ELSE IF ~DictHas(loop.acc.dfs_map, "CONSOLIDADO") \/ ~DictHas(loop.acc.dfs_map, "INDIVIDUAL")
             THEN [saved EXCEPT !.status = "key_error"]
             ELSE LET sheets == ExcelSheets(loop.acc.dfs_map)
                      excel_file_path ==
                          GetBucketSaveFilePath(GoldExport, DfsFinal, NoAggType,
                              CreateRefDate(MaxRecordDate(DictGet(loop.acc.dfs_map, "CONSOLIDADO").rows)))
                      w == SaveFileToBucket(saved.store, excel_file_path, ExcelBytes(sheets),
                                            trace, DfsFinal, NoAggType)
                  IN  [saved EXCEPT !.store = w.store, !.sheets = sheets,
                                    !.export = <<[key |-> excel_file_path, outcome |-> w.outcome]>>,
                                    !.returned = <<excel_file_path>>]

-----------------------------------------------------------------------------
(* The metrics derivation called on a bucket that holds silver/enriched        *)
(* tables (SpecMetrics)                                                        *)

Acc3_010       == <<"3", ".", "0", "1", "0">>
Acc2_01_04_01  == <<"2", ".", "0", "1", ".", "0", "4", ".", "0", "1">>
Acc6_01_02_02_01 == <<"6", ".", "0", "1", ".", "0", "2", ".", "0", "2", ".", "0", "1">>
Acc9_99        == <<"9", ".", "9", "9">>
Acc6_02_010    == <<"6", ".", "0", "2", ".", "0", "1", "0">>
Acc6_02_01_01  == <<"6", ".", "0", "2", ".", "0", "1", ".", "0", "1">>

\* The silver/enriched keys of the model, in the order FS_enrich returns them.
EnrichedKeys ==
    << GetBucketSaveFilePath(SilverEnriched, DfsFinal, "INDIVIDUAL", "202412"),
       GetBucketSaveFilePath(SilverEnriched, DfsFinal, "CONSOLIDADO", "202412") >>

\* An enriched row, with the columns the derivation reads.
MetricRow(cnpj, date, code, value) ==
    [CNPJ_CIA |-> cnpj, DT_REFER |-> date, CD_CONTA |-> code, enr_adjusted_account_value |-> value]

\* The rows of a silver/enriched table of one of the kinds the model draws.
EnrichedRows(kind) ==
    CASE kind = "exact" ->
            <<MetricRow(FormattedCnpj, Date(2024, 3), Acc3_01, Num(100)),
              MetricRow(FormattedCnpj, Date(2024, 3), Acc3_010, Num(999))>>
      [] kind = "fallback" ->
            <<MetricRow(FormattedCnpj, Date(2024, 6), Acc3_06_02, Num(-50)),
              MetricRow(FormattedCnpj, Date(2024, 6), Acc6_01_02_02, Num(30)),
              MetricRow(FormattedCnpj, Date(2024, 6), Acc6_01_02_02_01, Num(-30))>>
      [] kind = "cashflow" ->
            <<MetricRow(FormattedCnpj, Date(2024, 9), Acc6_01_02_02, Num(-70)),
              MetricRow(FormattedCnpj, Date(2024, 9), Acc3_06_02, Num(-50)),
              MetricRow(FormattedCnpj, Date(2024, 9), Acc6_02_01, Num(-20))>>
      [] kind = "nocodes" ->
            <<MetricRow(FormattedCnpj, Date(2024, 12), Acc9_99, Num(5)),
              MetricRow(FormattedCnpj, Date(2024, 3), Acc3_01, Num(100))>>
      [] kind = "debt" ->
            <<MetricRow(FormattedCnpj, Date(2024, 3), Acc2_01_04, Num(10)),
              MetricRow(FormattedCnpj, Date(2024, 3), Acc2_01_04_01, Num(5)),
              MetricRow(FormattedCnpj, Date(2024, 3), Acc2_02_01, Num(7)),
              MetricRow(OtherCnpj, Date(2024, 3), Acc1_01_01, Num(9)),
              MetricRow(FormattedCnpj, Date(2024, 3), Acc1_01_01, Num(4)),
              MetricRow(FormattedCnpj, Date(2024, 3), Acc3_05, Num(8)),
              MetricRow(FormattedCnpj, Date(2024, 3), Acc3_04_04, Num(2))>>
      [] kind = "sibling" ->
            <<MetricRow(FormattedCnpj, Date(2024, 6), Acc6_02_01, Num(-20)),
              MetricRow(FormattedCnpj, Date(2024, 6), Acc6_02_01_01, Num(-5)),
              MetricRow(FormattedCnpj, Date(2024, 6), Acc6_02_010, Num(-7)),
              MetricRow(FormattedCnpj, Date(2024, 6), Acc6_01_02, Num(-3)),
              MetricRow(FormattedCnpj, Date(2024, 6), Acc2_01_04, Num(10)),
              MetricRow(FormattedCnpj, Date(2024, 6), Acc2_02_01, Num(7)),
              MetricRow(FormattedCnpj, Date(2024, 6), Acc1_01_01, Num(4)),
              MetricRow(FormattedCnpj, Date(2024, 6), Acc3_05, Num(8)),
              MetricRow(FormattedCnpj, Date(2024, 6), Acc3_04_04, Num(2))>>
      [] kind = "nan" ->
            <<MetricRow(FormattedCnpj, Date(2024, 3), Acc3_01, NaN),
              MetricRow(FormattedCnpj, Date(2024, 3), Acc3_01, Num(100))>>
      [] OTHER -> <<>>

EnrichedKinds(i) ==
    IF i = 1 THEN {"absent", "exact", "fallback", "nocodes", "norows"}
    ELSE {"absent", "exact", "fallback", "cashflow", "nocodes", "debt", "sibling", "nan",
          "norows"}

\* The object FS_enrich leaves under key k for rows.
EnrichedObject(rows) ==
    LET df == [cols |-> <<"CNPJ_CIA", "DT_REFER", "CD_CONTA", "enr_adjusted_account_value">>,
               rows |-> rows]
    IN  [payload |-> ConvertToParquetBytes(df),
         meta |-> CreatePutObjMetadata(ConvertToParquetBytes(df), 0, DfsFinal, NoAggType)]

MetricsInit ==
    /\ \E k1 \in EnrichedKinds(1), k2 \in EnrichedKinds(2) :
          store = [k \in {EnrichedKeys[i] : i \in {n \in 1..2 : <<k1, k2>>[n] # "absent"}} |->
                      EnrichedObject(EnrichedRows(IF k = EnrichedKeys[1] THEN k1 ELSE k2))]
    /\ attached = EmptyStore
    /\ last = NoCall
    /\ calls = 0
    /\ IdleWriters
    /\ IdleCtor
    /\ IdleFS
    /\ IdleDownstream

\* The key lists the model calls the derivation with.
MetricsInputs ==
    { EnrichedKeys, <<EnrichedKeys[2], EnrichedKeys[1]>>, <<EnrichedKeys[2]>> }

\* One call of calculate_detailed_financials_quarterly, whole.
MetricsCall ==
    /\ gm.run < MaxRuns
    /\ \E paths \in MetricsInputs, t \in TraceIds :
          LET r == CalculateDetailedFinancialsQuarterly(store, cache, paths, t)
          IN  /\ store' = r.store
              /\ cache' = r.cache
              /\ gm' = [pc |-> IF r.status = "ok" THEN "returned" ELSE "raised",
                        run |-> gm.run + 1, paths |-> paths, trace |-> t,
                        error |-> IF r.status = "ok" THEN "none" ELSE r.status,
                        returned |-> r.returned, reads |-> r.reads, puts |-> r.puts,
                        published |-> r.published, sheets |-> r.sheets, export |-> r.export]
    /\ UNCHANGED <<gwVars, wrVars, ctorVars, fs, en, etl, sideVars>>

MetricsNext == MetricsCall

SpecMetrics == MetricsInit /\ [][MetricsNext]_vars

-----------------------------------------------------------------------------
(* Properties of the metrics derivation (SpecMetrics) *)

\* The enriched table the last call read for an aggregation type.
InputRowsOf(agg) ==
    store[CHOOSE k \in Seq2Set(gm.paths) : k[Len(k)][2] = agg].payload[2].rows

\* The rows of a (company, reference date) group.
GroupRows(rows, cnpj, date) ==
    SelectSeq(rows, LAMBDA r : r.CNPJ_CIA = cnpj /\ r.DT_REFER = date)

\* The defined adjusted value of a row (an undefined one adds nothing to a sum).
ValueOf(r) == IF r.enr_adjusted_account_value.nan THEN 0 ELSE r.enr_adjusted_account_value.v

\* The sum over the rows whose code equals the given one.
RECURSIVE ExactSum(_, _)
ExactSum(rows, code) ==
    IF rows = <<>> THEN 0
    ELSE (IF rows[1].CD_CONTA = code THEN ValueOf(rows[1]) ELSE 0) + ExactSum(Tail(rows), code)

\* The sum over the rows whose code begins with the given characters.
RECURSIVE PrefixSum(_, _)
PrefixSum(rows, code) ==
    IF rows = <<>> THEN 0
    ELSE (IF /\ Len(rows[1].CD_CONTA) >= Len(code)
             /\ \A i \in 1..Len(code) : rows[1].CD_CONTA[i] = code[i]
          THEN ValueOf(rows[1]) ELSE 0) + PrefixSum(Tail(rows), code)

\* P(record, rows of its group) for every record of every serving table of the last call
EveryRecord(P(_, _)) ==
    \A n \in 1..Len(gm.puts) :
        \A i \in 1..Len(gm.puts[n].df.rows) :
            LET rec == gm.puts[n].df.rows[i]
            IN  P(rec, GroupRows(InputRowsOf(gm.puts[n].agg), rec.issuer_cnpj, rec.date))

SomeRecord(P(_, _)) ==
    \E n \in 1..Len(gm.puts) :
        \E i \in 1..Len(gm.puts[n].df.rows) :
            LET rec == gm.puts[n].df.rows[i]
            IN  P(rec, GroupRows(InputRowsOf(gm.puts[n].agg), rec.issuer_cnpj, rec.date))

ExactAndPrefixMatched(rec, group) ==
    /\ rec.revenue = ExactSum(group, Acc3_01)
    /\ rec.ebit = ExactSum(group, Acc3_05)
    /\ rec.depreciation = ExactSum(group, Acc3_04_04)
    /\ rec.cash = ExactSum(group, Acc1_01_01)
    /\ rec.debt_short_term = PrefixSum(group, Acc2_01_04)
    /\ rec.debt_long_term = PrefixSum(group, Acc2_02_01)
    /\ rec.wc_change = PrefixSum(group, Acc6_01_02)
    /\ (/\ Len(group) = 2
        /\ group[1].CD_CONTA = Acc3_01 /\ ValueOf(group[1]) = 100
        /\ group[2].CD_CONTA = Acc3_010 /\ ValueOf(group[2]) = 999)
          => rec.revenue = 100

\* C15: in every record, a metric taken by exact match is the sum of the
\* adjusted values of the group's rows whose code equals the metric's code, and
\* a metric taken by prefix match the sum over the rows whose code starts with
\* it; rows {"3.01": 100, "3.010": 999} give revenue 100.
C15_ExactVersusPrefix == EveryRecord(ExactAndPrefixMatched)

ExactMatchExcludes(rec, group) ==
    /\ rec.revenue = 100
    /\ \E i \in 1..Len(group) : group[i].CD_CONTA = Acc3_010 /\ ValueOf(group[i]) = 999

PrefixMatchIncludes(rec, group) ==
    /\ rec.debt_short_term = 15
    /\ \E i \in 1..Len(group) : group[i].CD_CONTA = Acc2_01_04_01

\* The derivation returned after it wrote the record of a group that holds a
\* code extending an exact-matched one, and the record of a group that holds a
\* code below a prefix-matched one.
C15_Witness ==
    gm.pc = "returned" /\ SomeRecord(ExactMatchExcludes) /\ SomeRecord(PrefixMatchIncludes)

InterestWithFallback(rec, group) ==
    LET interest_cf == PrefixSum(group, Acc6_01_02_02)
        interest_is == ExactSum(group, Acc3_06_02)
    IN  /\ interest_cf # 0 => rec.interest_paid = Abs(interest_cf)
        /\ interest_cf = 0 => rec.interest_paid = Abs(interest_is)
        /\ (interest_cf = 0 /\ interest_is = -50) => rec.interest_paid = 50
        /\ rec.interest_paid >= 0

\* C16: in every record, interest_paid is the absolute value of the prefix sum
\* over 6.01.02.02 when that sum is not zero and of the exact sum over 3.06.02
\* when it is zero (0 and -50 give 50), and it is never negative.
C16_InterestFallback == EveryRecord(InterestWithFallback)

FallbackApplied(rec, group) ==
    /\ PrefixSum(group, Acc6_01_02_02) = 0
    /\ \E i \in 1..Len(group) : group[i].CD_CONTA = Acc6_01_02_02
    /\ ExactSum(group, Acc3_06_02) = -50
    /\ rec.interest_paid = 50

\* The derivation returned after it wrote the record of a group whose
\* cash-flow rows sum to exactly zero and whose income-statement figure is -50.
C16_Witness == gm.pc = "returned" /\ SomeRecord(FallbackApplied)

\* The (company, reference date) groups of a table.
GroupsOf(rows) == {<<rows[i].CNPJ_CIA, rows[i].DT_REFER>> : i \in 1..Len(rows)}

\* A group holds none of the codes a metric is taken from.
NoMetricCode(group) ==
    \A i \in 1..Len(group) :
        \A code \in {Acc1_01_01, Acc2_01_04, Acc2_02_01, Acc3_01, Acc3_04_04, Acc3_05,
                     Acc3_06_02, Acc6_01_02, Acc6_02_01} :
            \/ Len(group[i].CD_CONTA) < Len(code)
            \/ \E c \in 1..Len(code) : group[i].CD_CONTA[c] # code[c]

AllMetricsZero(rec) ==
    \A m \in {"revenue", "ebitda", "ebit", "depreciation", "net_debt", "total_debt",
              "debt_short_term", "debt_long_term", "cash", "interest_paid", "capex",
              "wc_change"} : rec[m] = 0

QuarterAndZeroes(rec, group) ==
    /\ rec.quarter \in {1, 2, 3, 4}
    /\ rec.quarter = ((rec.date % 100) + 2) \div 3
    /\ NoMetricCode(group) => AllMetricsZero(rec)

\* Every path of the last call holds a table with rows, and both aggregation
\* types are among them.
WellFormedCall ==
    /\ \A k \in Seq2Set(gm.paths) : k \in DOMAIN store /\ store[k].payload[2].rows # <<>>
    /\ {k[Len(k)][2] : k \in Seq2Set(gm.paths)} = {"INDIVIDUAL", "CONSOLIDADO"}

\* C17: each serving table of a call holds exactly one record for every
\* (company, reference date) group of the enriched table it was derived from,
\* with quarter in 1..4 given by the month of the reference date; a group with
\* none of the metric codes has its record, all zeroes, and a call on tables
\* that are there and have rows does not raise.
C17_GroupCompleteness ==
    /\ \A n \in 1..Len(gm.puts) :
          LET recs   == gm.puts[n].df.rows
              groups == GroupsOf(InputRowsOf(gm.puts[n].agg))
          IN  /\ {<<recs[i].issuer_cnpj, recs[i].date>> : i \in 1..Len(recs)} = groups
              /\ Len(recs) = Cardinality(groups)
    /\ EveryRecord(QuarterAndZeroes)
    /\ (gm.pc # "idle" /\ WellFormedCall) => gm.pc = "returned"

ZeroRecordOfTwo(rec, group) ==
    /\ NoMetricCode(group)
    /\ group # <<>>
    /\ AllMetricsZero(rec)
    /\ rec.quarter = 4

\* The derivation returned after it wrote a table of two groups, one of them
\* without any metric code, and a table with groups of two companies.
C17_Witness ==
    /\ gm.pc = "returned"
    /\ SomeRecord(ZeroRecordOfTwo)
    /\ \E n \in 1..Len(gm.puts) :
          /\ Len(gm.puts[n].df.rows) = 2
          /\ gm.puts[n].df.rows[1].issuer_cnpj # gm.puts[n].df.rows[2].issuer_cnpj

\* The serving put of the last call for an aggregation type.
ServingPut(agg) == gm.puts[CHOOSE n \in 1..Len(gm.puts) : gm.puts[n].agg = agg]

\* C18: after a call that returned, the Consolidated sheet is the table handed
\* to the serving put for Consolidated and the Individual sheet the one for
\* Individual, row for row; a serving table the call wrote is stored as such,
\* and the workbook it wrote holds these sheets.
C18_ExportMirrorsServing ==
    gm.pc = "returned" =>
        /\ {gm.puts[n].agg : n \in 1..Len(gm.puts)} = {"INDIVIDUAL", "CONSOLIDADO"}
        /\ Len(gm.puts) = 2
        /\ gm.sheets.DFS_Consolidado = ServingPut("CONSOLIDADO").df
        /\ gm.sheets.DFS_Individual = ServingPut("INDIVIDUAL").df
        /\ \A n \in 1..Len(gm.puts) :
              gm.puts[n].outcome = "written" =>
                  store[gm.puts[n].key].payload[2] = gm.puts[n].df
        /\ gm.export[1].outcome = "written" =>
              store[gm.export[1].key].payload[2] = gm.sheets

\* The derivation returned a workbook whose two sheets differ, both serving
\* tables and the workbook written.
C18_Witness ==
    /\ gm.pc = "returned"
    /\ gm.sheets.DFS_Consolidado # gm.sheets.DFS_Individual
    /\ gm.sheets.DFS_Individual.rows # <<>>
    /\ \A n \in 1..Len(gm.puts) : gm.puts[n].outcome = "written"
    /\ gm.export[1].outcome = "written"

-----------------------------------------------------------------------------
(* FS_full_etl: retrieval, reconciliation, enrichment and metrics in one run   *)
(* (SpecETL)                                                                   *)

\* line 69
ITR_AMT_OF_YEARS_TO_FETCH == 3

\* datetime.today().year of the runs the model follows
TodayYear == 2025

\* line 927: [str(datetime.today().year - i) for i in range(0, ITR_AMT_OF_YEARS_TO_FETCH)]
YearsToFetchData == [i \in 1..ITR_AMT_OF_YEARS_TO_FETCH |-> ToString(TodayYear - (i - 1))]

\* lines 933-942: the document families in the order of urls_tuple
UrlsTuple == <<"ITR", "DFP">>

\* lines 938-946: the (year, family) pairs of the two loops; the annual file of
\* the current year is skipped
FetchedPairs ==
    SelectSeq([i \in 1..(Len(YearsToFetchData) * Len(UrlsTuple)) |->
                 [year     |-> YearsToFetchData[((i - 1) \div Len(UrlsTuple)) + 1],
                  doc_type |-> UrlsTuple[((i - 1) % Len(UrlsTuple)) + 1]]],
              LAMBDA p : ~(p.year = ToString(TodayYear) /\ p.doc_type = "DFP"))

\* fmts.MedallionLayer.BRONZE_LANDING and BRONZE_RAW
BronzeLanding == <<"bronze", "landing">>
BronzeRaw     == <<"bronze", "raw">>

\* lines 40-45: FILE_NAME_PART_MAPPING
FileNamePartMapping(doc_type) == IF doc_type = "ITR" THEN "cvm_itr" ELSE "dfp_cia_aberta"

\* line 628: <bronze/landing>/cvm/<part>-<file_year>-<last_update_date>.zip
FileNameInBucket(doc_type, file_year, last_update_date) ==
    BronzeLanding \o <<"cvm", <<FileNamePartMapping(doc_type), file_year, last_update_date>>>>

\* What the regulator's site offers for a family: the update date its landing
\* page shows (a counter) and the content of the archives behind it.
ZipKinds(doc_type) ==
    IF doc_type = "ITR" THEN {"good", "mixed", "other", "partial"} ELSE {"good"}

InitialSite == [ITR |-> [version |-> 1, kind |-> "good"],
                DFP |-> [version |-> 1, kind |-> "good"]]

\* Between two runs the regulator leaves a family alone or publishes it anew.
Republished(offer, doc_type) ==
    {offer} \cup {[version |-> offer.version + 1, kind |-> k] : k \in ZipKinds(doc_type)}

Publications(site) ==
    {[ITR |-> i, DFP |-> d] : i \in Republished(site.ITR, "ITR"),
                              d \in Republished(site.DFP, "DFP")}

\* The archive of a family and year; its bytes are its content.
ZipBytes(doc_type, year, kind) == [zip |-> <<doc_type, year>>, kind |-> kind]

\* zip_ref.namelist(): the files of the family and year; a partial archive
\* holds the index file and the asset statements only.
Namelist(zip) ==
    SelectSeq(RawFiles,
              LAMBDA f : /\ f.tokens[1] = (IF zip.zip[1] = "ITR" THEN "itr" ELSE "dfp")
                         /\ f.tokens[Len(f.tokens)] = zip.zip[2]
                         /\ (zip.kind = "partial" => (Len(f.tokens) = 4 \/ f.tokens[4] = "BPA")))

\* zip_ref.read(member)
MemberBytes(zip, dest_key) == RawCsv(IF zip.kind = "partial" THEN "good" ELSE zip.kind, dest_key)

\* One entry of the record of what a run did to the outside world.
Event(stage, op, key, outcome) == [stage |-> stage, op |-> op, key |-> key, outcome |-> outcome]

\* lines 177-201: the loop over the archive's members
RECURSIVE UploadMembers(_, _, _, _, _, _)
UploadMembers(s, zip, members, trace, doc_type, acc) ==
    IF members = <<>> THEN [store |-> s, keys |-> acc.keys, events |-> acc.events]
    ELSE LET dest_key == BronzeRaw \o <<Head(members).name>>
             w == SaveFileToBucket(s, dest_key, MemberBytes(zip, dest_key), trace,
                                   doc_type, NoAggType)
         IN  UploadMembers(w.store, zip, Tail(members), trace, doc_type,
                           [keys   |-> Append(acc.keys, dest_key),
                            events |-> Append(acc.events,
                                              Event("retrieval", "write", dest_key, w.outcome))])

\* How the regulator's servers answer during a run: both do, the landing pages
\* do not answer 200, or the download server refuses the archive.
NetStates == {"ok", "check_failed", "download_failed"}

\* lines 127-203: CVM_download_and_upload_to_bucket(url, bronze_landing_obj_name, doc_type)
CVMDownloadAndUploadToBucket(s, zip, bronze_landing_obj_name, doc_type, trace, net) ==
    IF net = "download_failed"
    THEN [status |-> "raised", error |-> "http", store |-> s, keys |-> <<>>, events |-> <<>>]
    ELSE LET w == SaveFileToBucket(s, bronze_landing_obj_name, zip, trace, doc_type, NoAggType)
             g == GetFileBytesAndMetadata(w.store, bronze_landing_obj_name)
             downloaded == << Event("retrieval", "download", bronze_landing_obj_name, "returned"),
                              Event("retrieval", "write", bronze_landing_obj_name, w.outcome) >>
         IN  IF g.outcome = "raised"
             THEN [status |-> "raised", error |-> "missing", store |-> w.store, keys |-> <<>>,
                   events |-> downloaded]
             ELSE LET u == UploadMembers(w.store, g.result[1], Namelist(g.result[1]), trace,
                                         doc_type, [keys |-> <<>>, events |-> downloaded])
                  IN  [status |-> "ok", error |-> "none", store |-> u.store, keys |-> u.keys,
                       events |-> u.events]

\* lines 599-646: CVM_startup(landing_url, download_zip_url, doc_type, file_year);
\* status "found" is the return without a value
CVMStartup(s, site, doc_type, file_year, trace, net) ==
    IF net = "check_failed"
    THEN \* line 89: the landing page did not answer 200
         [status |-> "raised", error |-> "http", store |-> s, keys |-> <<>>, events |-> <<>>]
    ELSE LET last_update_date    == ToString(site[doc_type].version)
             file_name_in_bucket == FileNameInBucket(doc_type, file_year, last_update_date)
         IN  IF file_name_in_bucket \in DOMAIN s
             THEN [status |-> "found", error |-> "none", store |-> s, keys |-> <<>>,
                   events |-> <<>>]
             ELSE CVMDownloadAndUploadToBucket(s,
                      ZipBytes(doc_type, file_year, site[doc_type].kind),
                      file_name_in_bucket, doc_type, trace, net)

\* The events of a stage's reads and writes
ReadEvents(stage, reads) == [i \in 1..Len(reads) |-> Event(stage, "read", reads[i], "returned")]
WriteEvents(stage, puts) ==
    [i \in 1..Len(puts) |-> Event(stage, "write", puts[i].key, puts[i].outcome)]
PublishEvents(stage, published) ==
    [i \in 1..Len(published) |-> Event(stage, "publish", published[i], "cached")]

\* lines 995-997: raise Exception(f"CVMETL:FS_full_etl: {e}")
WrappedError(e) == [wrapper |-> "CVMETL:FS_full_etl", cause |-> e]

\* The exceptions that have left FS_full_etl in the current run: the wrapped
\* error of every stage that raised.
Raised == [i \in 1..Len(etl.raised_in) |-> WrappedError(etl.error)]

\* The pipeline going on after a stage whatever its end.
AfterStageIgnoringRaise(status, next) == next

\* lines 925, 995-997: a stage's exception leaves the try block
AfterStage(status, next) == IF status = "ok" THEN next ELSE "raised"

EtlInit ==
    /\ store = EmptyStore
    /\ attached = EmptyStore
    /\ last = NoCall
    /\ calls = 0
    /\ IdleWriters
    /\ IdleCtor
    /\ IdleFS
    /\ en = NoEnrich
    /\ gm = NoMetrics
    /\ cache = NoCache
    /\ b3 = NoB3
    /\ rag = NoRag
    /\ etl = [pc |-> "idle", run |-> 0, site |-> InitialSite, idx |-> 0,
              all_years_uploaded_csv_keys |-> <<>>, silver_cleaned_files_path |-> <<>>,
              silver_enriched_file_paths |-> <<>>, uploaded_file_paths |-> <<>>,
              last_update_date |-> "", net |-> "ok", log |-> <<>>, raised_in |-> <<>>,
              error |-> "none",
              retry |-> FALSE]

\* A run of FS_full_etl begins (lines 925-936); the regulator may have published
\* since, and its servers are in one of their states for the run. `retry`
\* tells that the run before raised in a stage after its bronze writes and
\* that the site offers what it offered then.
EtlStart ==
    /\ etl.pc \in {"idle", "returned", "no_new_data", "raised"}
    /\ etl.run < MaxRuns
    /\ \E site \in Publications(etl.site), net \in NetStates :
          etl' = [etl EXCEPT !.pc = "startup", !.run = @ + 1, !.site = site, !.net = net,
                             !.idx = 1,
                             !.all_years_uploaded_csv_keys = <<>>,
                             !.silver_cleaned_files_path = <<>>,
                             !.silver_enriched_file_paths = <<>>,
                             !.uploaded_file_paths = <<>>,
                             !.log = <<>>, !.raised_in = <<>>,
                             !.error = "none",
                             !.retry = /\ etl.raised_in # <<>>
                                       /\ etl.raised_in[1] \in {"cleaned", "enriched", "gold"}
                                       /\ site = etl.site]
    /\ UNCHANGED <<store, gwVars, wrVars, ctorVars, fs, en, gm, cache, sideVars>>

\* lines 938-966: one turn of the loops over years and families
EtlStartup ==
    /\ etl.pc = "startup"
    /\ LET p == FetchedPairs[etl.idx]
           r == CVMStartup(store, etl.site, p.doc_type, p.year, etl.run, etl.net)
       IN     /\ store' = r.store
              /\ etl' = [etl EXCEPT
                    !.pc = IF r.status = "raised" THEN "raised"
                           ELSE IF r.keys = <<>> THEN "no_new_data"
                           ELSE IF etl.idx = Len(FetchedPairs) THEN "cleaning" ELSE "startup",
                    !.idx = @ + 1,
                    !.all_years_uploaded_csv_keys = @ \o r.keys,
                    !.last_update_date = IF etl.net = "check_failed" THEN @
                                         ELSE ToString(etl.site[p.doc_type].version),
                    !.log = @ \o r.events,
                    !.raised_in = IF r.status = "raised" THEN Append(@, "retrieval") ELSE @,
                    !.error = r.error]
    /\ UNCHANGED <<gwVars, wrVars, ctorVars, fs, en, gm, cache, sideVars>>

\* line 979: silver_cleaned_files_path = self.FS_filter_and_clean(all_years_uploaded_csv_keys,
\*                                                                years_to_fetch_data)
EtlFilterAndClean ==
    /\ etl.pc = "cleaning"
    /\ LET r == FSFilterAndClean(store, etl.all_years_uploaded_csv_keys, YearsToFetchData, 1,
                                 etl.run, [returned |-> <<>>, reads |-> <<>>, puts |-> <<>>])
       IN  /\ store' = r.store
           /\ etl' = [etl EXCEPT
                 !.pc = AfterStage(r.status, "enriching"),
                 !.silver_cleaned_files_path = r.returned,
                 !.log = @ \o <<Event("cleaned", "start", <<>>, "called")>>
                           \o ReadEvents("cleaned", r.reads) \o WriteEvents("cleaned", r.puts),
                 !.raised_in = IF r.status = "ok" THEN @ ELSE Append(@, "cleaned"),
                 !.error = IF r.status = "ok" THEN "none" ELSE r.status]
    /\ UNCHANGED <<gwVars, wrVars, ctorVars, fs, en, gm, cache, sideVars>>

\* line 981: silver_enriched_file_paths = self.FS_enrich(silver_cleaned_files_path)
EtlEnrich ==
    /\ etl.pc = "enriching"
    /\ LET r == FSEnrich(store, etl.silver_cleaned_files_path, etl.run, etl.last_update_date)
       IN  /\ store' = r.store
           /\ etl' = [etl EXCEPT
                 !.pc = AfterStage(r.status, "deriving"),
                 !.silver_enriched_file_paths = r.returned,
                 !.log = @ \o <<Event("enriched", "start", <<>>, "called")>>
                           \o ReadEvents("enriched", r.reads) \o WriteEvents("enriched", r.puts),
                 !.raised_in = IF r.status = "ok" THEN @ ELSE Append(@, "enriched"),
                 !.error = IF r.status = "ok" THEN "none" ELSE r.status]
    /\ UNCHANGED <<gwVars, wrVars, ctorVars, fs, en, gm, cache, sideVars>>

\* lines 987-993: uploaded_file_paths = self.calculate_detailed_financials_quarterly(
\*                    silver_enriched_file_paths); return uploaded_file_paths
EtlGold ==
    /\ etl.pc = "deriving"
    /\ LET r == CalculateDetailedFinancialsQuarterly(store, cache,
                                                     etl.silver_enriched_file_paths, etl.run)
       IN  /\ store' = r.store
           /\ cache' = r.cache
           /\ etl' = [etl EXCEPT
                 !.pc = AfterStage(r.status, "returned"),
                 !.uploaded_file_paths = r.returned,
                 !.log = @ \o <<Event("gold", "start", <<>>, "called")>>
                           \o ReadEvents("gold", r.reads) \o WriteEvents("gold", r.puts)
                           \o PublishEvents("gold", r.published)
                           \o WriteEvents("gold", r.export),
                 !.raised_in = IF r.status = "ok" THEN @ ELSE Append(@, "gold"),
                 !.error = IF r.status = "ok" THEN "none" ELSE r.status]
    /\ UNCHANGED <<gwVars, wrVars, ctorVars, fs, en, gm, sideVars>>

EtlNext == EtlStart \/ EtlStartup \/ EtlFilterAndClean \/ EtlEnrich \/ EtlGold

SpecETL == EtlInit /\ [][EtlNext]_vars

-----------------------------------------------------------------------------
(* Properties of the pipeline (SpecETL) *)

\* The place of a stage in bronze -> silver-cleaned -> silver-enriched -> gold.
StageRank(stage) ==
    CASE stage = "retrieval" -> 1
      [] stage = "cleaned"   -> 2
      [] stage = "enriched"  -> 3
      [] stage = "gold"      -> 4

\* The keys the stage before `stage` handed over in the current run.
HandedOver(stage) ==
    CASE stage = "cleaned"  -> Seq2Set(etl.all_years_uploaded_csv_keys)
      [] stage = "enriched" -> Seq2Set(etl.silver_cleaned_files_path)
      [] stage = "gold"     -> Seq2Set(etl.silver_enriched_file_paths)
      [] OTHER              -> {}

\* C19: strict stage sequencing in FS_full_etl. In the record of a run, nothing
\* a stage does comes after anything a later stage does (so every silver-cleaned
\* write is over before the first silver-enriched read or write, and every
\* silver-enriched write before the first gold write); every read of a stage
\* is of a key the stage before it returned; and once a stage has raised,
\* nothing of a later stage happens and no other stage raises.
C19_StrictStageSequencing ==
    /\ \A i, j \in 1..Len(etl.log) :
          i < j => StageRank(etl.log[i].stage) <= StageRank(etl.log[j].stage)
    /\ \A i \in 1..Len(etl.log) :
          etl.log[i].op = "read" => etl.log[i].key \in HandedOver(etl.log[i].stage)
    /\ etl.raised_in # <<>> =>
          /\ Len(etl.raised_in) = 1
          /\ etl.pc = "raised"
          /\ \A i \in 1..Len(etl.log) :
                StageRank(etl.log[i].stage) <= StageRank(etl.raised_in[1])

\* A run went through all four stages: it downloaded, wrote silver-cleaned
\* tables, read them and wrote silver-enriched ones, read those and wrote gold.
C19_Witness ==
    /\ etl.pc = "returned"
    /\ \A stage \in {"retrieval", "cleaned", "enriched", "gold"} :
          \E i \in 1..Len(etl.log) : /\ etl.log[i].stage = stage
                                     /\ etl.log[i].op = "write"
                                     /\ etl.log[i].outcome = "written"
    /\ \A stage \in {"cleaned", "enriched", "gold"} :
          \E i \in 1..Len(etl.log) : etl.log[i].stage = stage /\ etl.log[i].op = "read"

\* C20: 'no new data' is a valid early exit. A run of FS_full_etl that ended
\* because CVM_startup found the artifact of the current update date already
\* present has raised nothing and has performed no download, no silver or gold
\* write and no cache publish.
C20_NoNewDataEarlyExit ==
    etl.pc = "no_new_data" =>
        /\ etl.raised_in = <<>>
        /\ \A i \in 1..Len(etl.log) :
              /\ etl.log[i].op # "download"
              /\ etl.log[i].op # "publish"
              /\ etl.log[i].op = "write" =>
                    etl.log[i].stage \notin {"cleaned", "enriched", "gold"}

\* The function of CVMETL that carries out a stage.
StageFunction(stage) ==
    CASE stage = "retrieval" -> "CVMETL:CVM_startup"
      [] stage = "cleaned"   -> "CVMETL:FS_filter_and_clean"
      [] stage = "enriched"  -> "CVMETL:FS_enrich"
      [] stage = "gold"      -> "CVMETL:calculate_detailed_financials_quarterly"

\* C21: any fatal condition raised in any stage aborts the top-level
\* invocation. A run in which a stage raised has raised exactly one wrapped
\* error, which names the stage that failed, has returned no value and has
\* run no later stage.
C21_FatalAbortsRun ==
    etl.raised_in # <<>> =>
        /\ etl.pc = "raised"
        /\ Len(Raised) = 1
        /\ Raised[1].wrapper = StageFunction(etl.raised_in[1])
        /\ etl.uploaded_file_paths = <<>>
        /\ \A i \in 1..Len(etl.log) :
              StageRank(etl.log[i].stage) <= StageRank(etl.raised_in[1])

\* The run before the current one raised in a stage after its bronze writes,
\* and the current run meets the same upstream data and working servers.
RetryOfFailedRun == etl.retry /\ etl.net = "ok"

\* C22: recovery after a failed run. A run that follows a run failed after its
\* bronze writes, on the same upstream data, runs the silver and gold stages
\* and ends with a returned value.
C22_RecoveryAfterFailedRun ==
    (etl.pc \in {"returned", "no_new_data", "raised"} /\ RetryOfFailedRun) =>
        /\ etl.pc = "returned"
        /\ \A stage \in {"cleaned", "enriched", "gold"} :
              \E i \in 1..Len(etl.log) : etl.log[i].stage = stage

-----------------------------------------------------------------------------
(* B3ETL.macro_data_full_etl (SpecB3) *)

\* lines 44-48: MACRO_DATA_TYPE_MAP
MacroDataTypeMap ==
    ("TAXAS DE CÂMBIO" :> "FX")
    @@ ("TAXAS DE JUROS INTERNACIONAL" :> "INTERNATIONAL_RATES")
    @@ ("TAXAS DE JUROS NACIONAL" :> "DOMESTIC_RATES")

\* One element of the response list; only one of value and rate is filled.
MacroItem(kind) ==
    CASE kind = "fx" ->
           [securityIdentificationCode |-> "USD", description |-> "Dolar Americano",
            groupDescription |-> "TAXAS DE CÂMBIO", value |-> 525, rate |-> 0,
            lastUpdate |-> "2025-10-19"]
      [] kind = "rate" ->
           [securityIdentificationCode |-> "SELIC", description |-> "Taxa Selic",
            groupDescription |-> "TAXAS DE JUROS NACIONAL", value |-> 0, rate |-> 1125,
            lastUpdate |-> "2025-10-19"]
      [] kind = "unknown" ->
           [securityIdentificationCode |-> "IPCA", description |-> "Indice de precos",
            groupDescription |-> "INDICES", value |-> 0, rate |-> 451,
            lastUpdate |-> "2025-10-19"]

\* What the endpoint answers: an error with its message, or a list of elements.
MacroAnswers ==
    { [status |-> "error", message |-> m, content |-> <<>>] :
         m \in {"HTTP 500 Error", "HTTP 403 Error"} }
    \cup
    { [status |-> "ok", message |-> "", content |-> [i \in 1..Len(kinds) |-> MacroItem(kinds[i])]] :
         kinds \in { <<>>, <<"fx">>, <<"rate">>, <<"unknown">>, <<"fx", "rate">>,
                     <<"rate", "fx">>, <<"fx", "unknown">>, <<"unknown", "rate">> } }

Max(a, b) == IF a >= b THEN a ELSE b

\* lines 85-98: the loop over all_macro_data; a group that is no key of the map
\* raises KeyError
RECURSIVE MacroRows(_, _)
MacroRows(all_macro_data, df_data_list) ==
    IF all_macro_data = <<>> THEN [status |-> "ok", message |-> "", rows |-> df_data_list]
    ELSE LET curr_macro_data == Head(all_macro_data)
         IN  IF curr_macro_data.groupDescription \notin DOMAIN MacroDataTypeMap
             THEN [status |-> "raised", message |-> curr_macro_data.groupDescription,
                   rows |-> df_data_list]
             ELSE MacroRows(Tail(all_macro_data),
                     Append(df_data_list,
                            [security_id |-> curr_macro_data.securityIdentificationCode,
                             description |-> curr_macro_data.description,
                             data_type   |-> MacroDataTypeMap[curr_macro_data.groupDescription],
                             value       |-> Max(curr_macro_data.value, curr_macro_data.rate),
                             ref_date    |-> curr_macro_data.lastUpdate]))

\* fmts.DocumentSchemas.B3_DADOS_MACRO.get_column_names
MacroColumns == <<"security_id", "description", "data_type", "value", "ref_date">>

\* fmts.DocumentTypes.B3_DADOS_MACRO and fmts.GoldServingTableNames.MACRO_DATA
B3DadosMacro == "B3_DADOS_MACRO"
MacroData    == "macro_data"

\* config.save_df_to_gold_export_and_serving: the table saved under gold/serving
\* and gold/export; the map of the two keys is returned
SaveDfToGoldExportAndServing(s, df, doc_type, ref_date, trace) ==
    LET serving == GetBucketSaveFilePath(GoldServing, doc_type, NoAggType, ref_date)
        export  == GetBucketSaveFilePath(GoldExport, doc_type, NoAggType, ref_date)
        w1 == SaveFileToBucket(s, serving, ConvertToParquetBytes(df), trace, doc_type, NoAggType)
        w2 == SaveFileToBucket(w1.store, export, ExcelBytes(df), trace, doc_type, NoAggType)
    IN  [store |-> w2.store, saved_file_map |-> [GOLD_SERVING |-> serving, GOLD_EXPORT |-> export]]

\* The cache published before the gold tables are saved.
MacroPublishThenSave(s, c, df, trace) ==
    LET saved == SaveDfToGoldExportAndServing(s, df, B3DadosMacro, Today, trace)
    IN  [store |-> saved.store,
         cache |-> SaveToCache(c, MacroData, df.rows, Today, trace, NoAggType),
         saved_file_map |-> saved.saved_file_map,
         log |-> << [op |-> "publish", table |-> MacroData, trace_id |-> trace, df |-> df],
                    [op |-> "save", table |-> MacroData, trace_id |-> trace, df |-> df] >>]

\* lines 112-124: the gold save, then the cache publish
MacroSaveAndPublish(s, c, df, trace) ==
    LET saved == SaveDfToGoldExportAndServing(s, df, B3DadosMacro, Today, trace)
    IN  [store |-> saved.store,
         cache |-> SaveToCache(c, MacroData, df.rows, Today, trace, NoAggType),
         saved_file_map |-> saved.saved_file_map,
         log |-> << [op |-> "save", table |-> MacroData, trace_id |-> trace, df |-> df],
                    [op |-> "publish", table |-> MacroData, trace_id |-> trace, df |-> df] >>]

\* lines 132-134: raise Exception(f"B3ETL:macro_data_full_etl: {e}")
MacroWrappedError(e) == [wrapper |-> "B3ETL:macro_data_full_etl", cause |-> e]

B3Init ==
    /\ store = EmptyStore
    /\ attached = EmptyStore
    /\ last = NoCall
    /\ calls = 0
    /\ IdleWriters
    /\ IdleCtor
    /\ IdleFS
    /\ IdleDownstream

\* lines 51-134: macro_data_full_etl() run to its end against an answer of the endpoint
MacroDataFullEtl ==
    /\ b3.run < MaxRuns
    /\ \E answer \in MacroAnswers, t \in TraceIds :
          LET parsed == MacroRows(answer.content, <<>>)
              df     == [cols |-> MacroColumns, rows |-> parsed.rows]
              done   == MacroSaveAndPublish(store, cache, df, t)
              call   == [pc |-> "raised", run |-> b3.run + 1, answer |-> answer, trace |-> t,
                         log |-> <<>>, exceptions |-> <<>>, returned |-> <<>>]
          IN  IF answer.status = "error"
              THEN \* line 79: response.raise_for_status()
                   /\ b3' = [call EXCEPT !.exceptions = <<MacroWrappedError(answer.message)>>]
                   /\ UNCHANGED <<store, cache>>
              ELSE IF parsed.status = "raised"
              THEN /\ b3' = [call EXCEPT !.exceptions = <<MacroWrappedError(parsed.message)>>]
                   /\ UNCHANGED <<store, cache>>
              ELSE /\ b3' = [call EXCEPT !.pc = "returned", !.log = done.log,
                                         !.returned = <<done.saved_file_map.GOLD_EXPORT>>]
                   /\ store' = done.store
                   /\ cache' = done.cache
    /\ UNCHANGED <<gwVars, wrVars, ctorVars, fs, en, gm, etl, rag>>

B3Next == MacroDataFullEtl

SpecB3 == B3Init /\ [][B3Next]_vars

-----------------------------------------------------------------------------
(* Properties of the macro-data ETL (SpecB3) *)

\* The last call made exactly one gold save followed by exactly one cache
\* publish that carries the run's trace id.
OneSaveThenOnePublish ==
    /\ b3.pc = "returned"
    /\ Len(b3.log) = 2
    /\ b3.log[1].op = "save"
    /\ b3.log[2].op = "publish"
    /\ b3.log[2].trace_id = b3.trace
    /\ MacroData \in DOMAIN cache
    /\ cache[MacroData].trace_id = b3.trace

\* The last call raised an error that carries message and did neither save nor publish.
RaisedWithout(message) ==
    /\ b3.pc = "raised"
    /\ b3.exceptions = <<MacroWrappedError(message)>>
    /\ b3.log = <<>>
    /\ b3.returned = <<>>

\* Every element of the answer has a group the type map knows.
EveryGroupMapped ==
    \A i \in 1..Len(b3.answer.content) :
       b3.answer.content[i].groupDescription \in DOMAIN MacroDataTypeMap

\* C23 (as stated): whenever the retrieval succeeds, the call makes one gold
\* save followed by one cache publish.
C23_SaveAndPublishOnEveryAnswer ==
    (b3.run > 0 /\ b3.answer.status = "ok") => OneSaveThenOnePublish

\* C23 (amended): outcome protocol of macro_data_full_etl. A failed retrieval
\* raises an error carrying the upstream message, without gold save or cache
\* publish; a retrieved list all of whose elements have a mapped group (the
\* empty list included) gives exactly one gold save followed by exactly one
\* cache publish with the run's trace id; a retrieved list with an element of
\* an unmapped group raises, again without save or publish.
C23_MacroOutcomeProtocol ==
    b3.run > 0 =>
        /\ b3.answer.status = "error" => RaisedWithout(b3.answer.message)
        /\ (b3.answer.status = "ok" /\ EveryGroupMapped) => OneSaveThenOnePublish
        /\ (b3.answer.status = "ok" /\ ~EveryGroupMapped) =>
              \E i \in 1..Len(b3.answer.content) :
                 RaisedWithout(b3.answer.content[i].groupDescription)

\* A second call that retrieved an empty list, saved and published, after a
\* first call whose publish is now replaced.
C23_Witness ==
    /\ b3.run = 2
    /\ b3.answer.status = "ok"
    /\ b3.answer.content = <<>>
    /\ OneSaveThenOnePublish
    /\ cache[MacroData].data = <<>>

-----------------------------------------------------------------------------
(* RagflowHandler.upload_document_and_start_parse on a dataset (SpecRag) *)

\* A document of the dataset; meta_fields has a file_hash attribute or not.
Document(name, meta_fields) == [name |-> name, meta_fields |-> meta_fields, parse |-> FALSE]

NoMetaFields == [k \in {} |-> ""]

\* The datasets a call may find.
Datasets ==
    { <<>>,
      << Document("old.pdf", NoMetaFields) >>,
      << Document("a.pdf", [file_hash |-> "h1"]) >>,
      << Document("a.pdf", NoMetaFields), Document("b.pdf", [file_hash |-> "h2"]) >>,
      << Document("old.pdf", [origem |-> "cvm"]), Document("b.pdf", [file_hash |-> "h1"]) >> }

\* Python's None and a hash, as values that can be compared
None == <<>>
Some(x) == <<x>>

\* lines 64-85: get_all_files_hash_in_dataset(dataset): [name, file_hash or None]
\* of every document
GetAllFilesHashInDataset(documents) ==
    [i \in 1..Len(documents) |->
        << documents[i].name,
           IF "file_hash" \in DOMAIN documents[i].meta_fields
           THEN Some(documents[i].meta_fields.file_hash) ELSE None >>]

\* The comparison that also takes a document without hash for a duplicate.
SameHashOrNone(file_to_be_uploaded_hash, dataset_file_hash) ==
    dataset_file_hash = None \/ Some(file_to_be_uploaded_hash) = dataset_file_hash

\* line 110: file_to_be_uploaded_hash == dataset_file_hash
SameHash(file_to_be_uploaded_hash, dataset_file_hash) ==
    Some(file_to_be_uploaded_hash) = dataset_file_hash

\* lines 120-140: the meta fields written on the uploaded document
DocumentMetaFields(file_metadata) ==
    [origem |-> file_metadata.source, tipo_documento |-> file_metadata.document_type,
     file_hash |-> file_metadata.file_hash]

RagInit ==
    /\ store = EmptyStore
    /\ attached = EmptyStore
    /\ last = NoCall
    /\ calls = 0
    /\ IdleWriters
    /\ IdleCtor
    /\ IdleFS
    /\ en = NoEnrich
    /\ gm = NoMetrics
    /\ cache = NoCache
    /\ etl = NoEtl
    /\ b3 = NoB3
    /\ \E documents \in Datasets, exists \in BOOLEAN :
          rag = [pc |-> "idle", run |-> 0, exists |-> exists, documents |-> documents,
                 log |-> <<>>]

\* lines 87-152: upload_document_and_start_parse(dataset_name, file_name, file_bytes,
\* file_metadata) run to its end
UploadDocumentAndStartParse ==
    /\ rag.pc # "exited"
    /\ rag.run < MaxRuns
    /\ \E treated_file_name \in {"a.pdf", "b.pdf"}, hash \in {"h1", "h2"} :
          LET file_metadata == [file_hash |-> hash, source |-> "cvm", document_type |-> "IPE"]
              file_to_be_uploaded_hash == file_metadata.file_hash
              hashes == GetAllFilesHashInDataset(rag.documents)
          IN  IF ~rag.exists
              THEN \* lines 98-104: no such dataset, exit(1)
                   rag' = [pc |-> "exited", run |-> rag.run + 1, exists |-> FALSE,
                           documents |-> rag.documents, log |-> <<>>,
                           before |-> rag.documents, file_name |-> treated_file_name,
                           file_metadata |-> file_metadata]
              ELSE IF \E i \in 1..Len(hashes) : SameHash(file_to_be_uploaded_hash, hashes[i][2])
              THEN \* lines 110-114: one warning, then return
                   rag' = [pc |-> "returned", run |-> rag.run + 1, exists |-> TRUE,
                           documents |-> rag.documents,
                           log |-> <<[op |-> "warning", name |-> treated_file_name]>>,
                           before |-> rag.documents, file_name |-> treated_file_name,
                           file_metadata |-> file_metadata]
              ELSE LET uploaded == Append(rag.documents, Document(treated_file_name, NoMetaFields))
                   IN  \* line 144: list_documents(name=treated_file_name)[0], the order of
                       \* the listing being the server's
                       \E d \in {i \in 1..Len(uploaded) : uploaded[i].name = treated_file_name} :
                          rag' = [pc |-> "returned", run |-> rag.run + 1, exists |-> TRUE,
                                  documents |->
                                     [uploaded EXCEPT
                                        ![d] = [@ EXCEPT !.meta_fields = DocumentMetaFields(file_metadata),
                                                         !.parse = TRUE]],
                                  log |-> << [op |-> "upload", name |-> treated_file_name],
                                             [op |-> "update", name |-> uploaded[d].name],
                                             [op |-> "parse", name |-> uploaded[d].name] >>,
                                  before |-> rag.documents, file_name |-> treated_file_name,
                                  file_metadata |-> file_metadata]
    /\ UNCHANGED <<store, gwVars, wrVars, ctorVars, fs, en, gm, cache, etl, b3>>

RagNext == UploadDocumentAndStartParse

SpecRag == RagInit /\ [][RagNext]_vars

-----------------------------------------------------------------------------
(* Properties of the RAG upload (SpecRag) *)

\* A document the call found in the dataset carries the hash of the file.
DuplicateInDataset ==
    \E i \in 1..Len(rag.before) :
       /\ "file_hash" \in DOMAIN rag.before[i].meta_fields
       /\ rag.before[i].meta_fields.file_hash = rag.file_metadata.file_hash

-----------------------------------------------------------------------------
(* Properties of FS_enrich over inputs of one aggregation type (SpecEnrich) *)

\* Every key the call was given names a silver/cleaned table that has the
\* period-end column and rows.
ReadableInputs ==
    /\ en.paths # <<>>
    /\ \A i \in 1..Len(en.paths) :
          /\ en.paths[i] \in DOMAIN store
          /\ Contains(<<"DT_FIM_EXERC">>, store[en.paths[i]].payload[2].cols)
          /\ store[en.paths[i]].payload[2].rows # <<>>

\* C25: For any non-empty set of silver-cleaned input keys FS_enrich completes
\* by writing exactly two consolidated tables, one Individual and one
\* Consolidado (also when all inputs carry one aggregation type), each keyed by
\* the reference date of the maximum DT_FIM_EXERC of its rows.
C25_TwoTablesForAnyInput ==
    (en.run > 0 /\ ReadableInputs) =>
        /\ en.pc = "returned"
        /\ Len(en.puts) = 2
        /\ en.puts[1].key[5][2] = "INDIVIDUAL"
        /\ en.puts[2].key[5][2] = "CONSOLIDADO"
        /\ \A i \in 1..2 :
              en.puts[i].key[5][3] = CreateRefDate(MaxDate(en.puts[i].df.rows))

-----------------------------------------------------------------------------
(* Derived figures of a Quarterly Metric Record (SpecMetrics) *)

DerivedIdentities(rec, group) ==
    /\ rec.ebitda = rec.ebit + rec.depreciation
    /\ rec.total_debt = rec.debt_short_term + rec.debt_long_term
    /\ rec.net_debt = rec.total_debt - rec.cash
    /\ rec.capex = Abs(PrefixSum(group, Acc6_02_01))
    /\ rec.capex >= 0
    /\ rec.wc_change = PrefixSum(group, Acc6_01_02)

\* C26: in every emitted Quarterly Metric Record ebitda = ebit + depreciation,
\* total_debt = debt_short_term + debt_long_term, net_debt = total_debt - cash,
\* capex is the absolute value of the prefix sum over 6.02.01 (so capex >= 0)
\* and wc_change is the prefix sum over 6.01.02 with its sign.
C26_DerivedMetricIdentities == EveryRecord(DerivedIdentities)

\* A record with cash, debt, an outflow under 6.02.01 and a negative change of
\* working capital.
AllFiguresPresent(rec, group) ==
    /\ rec.cash # 0
    /\ rec.depreciation # 0
    /\ rec.debt_short_term # 0
    /\ rec.debt_long_term # 0
    /\ PrefixSum(group, Acc6_02_01) < 0
    /\ rec.capex > 0
    /\ rec.wc_change < 0

C26_Witness == gm.pc = "returned" /\ SomeRecord(AllFiguresPresent)

-----------------------------------------------------------------------------
(* Keys handed from stage to stage (SpecETL) *)

\* The keys the stages of the current run have returned so far.
ReturnedKeys ==
    Seq2Set(etl.all_years_uploaded_csv_keys) \cup Seq2Set(etl.silver_cleaned_files_path)
        \cup Seq2Set(etl.silver_enriched_file_paths) \cup Seq2Set(etl.uploaded_file_paths)

\* C27: every key a stage returned names an object the store holds, also when
\* the gateway skipped the write because the folder already held the same
\* bytes under another key, and no stage's get fails with a missing object.
C27_ReturnedKeysExist ==
    etl.pc # "idle" =>
        /\ ReturnedKeys \subseteq DOMAIN store
        /\ etl.error # "missing"

-----------------------------------------------------------------------------
(* The cache after the metrics derivation (SpecMetrics) *)

\* The cache holds the quarterly table the last call published for agg.
CachedTableOf(agg, rows) ==
    \E k \in DOMAIN cache :
        /\ cache[k].file_bucket_path[3][2] = agg
        /\ cache[k].data = rows

\* C28: after a successful metrics run the quarterly table of every
\* aggregation type the run published is retrievable from the cache; the
\* publish of one aggregation type does not overwrite or remove the cached
\* table of the other.
C28_CacheKeepsBothAggregations ==
    gm.pc = "returned" =>
        \A i \in 1..Len(gm.puts) :
            gm.puts[i].agg \in Seq2Set(gm.published)
                => CachedTableOf(gm.puts[i].agg, gm.puts[i].df.rows)

-----------------------------------------------------------------------------
(* FS_full_etl run again and again by its scheduler (SpecETLLive) *)

\* What the regulator offers at the start of a run: each family left alone or
\* published anew with well-formed archives, a bounded number of times.
LivePublications(site) ==
    { p \in Publications(site) :
        \A d \in {"ITR", "DFP"} : p[d].kind = "good" /\ p[d].version <= MaxRuns + 1 }

\* A run of FS_full_etl begins, whatever number of runs came before; the
\* servers answer.
EtlStartAgain ==
    /\ etl.pc \in {"idle", "returned", "no_new_data", "raised"}
    /\ \E site \in LivePublications(etl.site) :
          etl' = [etl EXCEPT !.pc = "startup",
                             !.run = IF @ < MaxRuns THEN @ + 1 ELSE @,
                             !.site = site, !.net = "ok",
                             !.idx = 1,
                             !.all_years_uploaded_csv_keys = <<>>,
                             !.silver_cleaned_files_path = <<>>,
                             !.silver_enriched_file_paths = <<>>,
                             !.uploaded_file_paths = <<>>,
                             !.log = <<>>, !.raised_in = <<>>,
                             !.error = "none",
                             !.retry = FALSE]
    /\ UNCHANGED <<store, gwVars, wrVars, ctorVars, fs, en, gm, cache, sideVars>>

EtlLiveNext == EtlStartAgain \/ EtlStartup \/ EtlFilterAndClean \/ EtlEnrich \/ EtlGold

\* A started run goes on to its end, and the scheduler starts the next one.
\* Every state enables exactly one of the five steps, so weak fairness of each
\* of them together is that steps keep being taken.
SpecETLLive ==
    /\ EtlInit
    /\ [][EtlLiveNext]_vars
    /\ WF_vars(EtlStartAgain)
    /\ []<><<EtlLiveNext>>_vars

\* The landing archives of update v of a family, one per fetched year.
LandingKeys(d, v) ==
    { FileNameInBucket(d, FetchedPairs[i].year, ToString(v)) :
        i \in {n \in 1..Len(FetchedPairs) : FetchedPairs[n].doc_type = d} }

\* A run starts while the regulator offers update v of family d and the
\* bucket lacks an archive of it.
NewUpdateOffered(d, v) ==
    /\ etl.pc = "startup"
    /\ etl.idx = 1
    /\ etl.site[d].version = v
    /\ ~(LandingKeys(d, v) \subseteq DOMAIN store)

\* A run that downloaded an archive of update v of family d returned from gold.
CarriedToGold(d, v) ==
    /\ etl.pc = "returned"
    /\ \E i \in 1..Len(etl.log) :
          /\ etl.log[i].stage = "retrieval"
          /\ etl.log[i].op = "write"
          /\ etl.log[i].key \in LandingKeys(d, v)

\* C29: eventual processing of new upstream data. Whenever a run starts while
\* the regulator offers an update of a fetched family, ITR or DFP, that the
\* bucket does not hold, repeated runs of FS_full_etl eventually download it
\* and carry it through silver to gold, whether or not the other family has
\* new data.
C29_EventualProcessing ==
    \A d \in {"ITR", "DFP"} : \A v \in 1..(MaxRuns + 1) :
        NewUpdateOffered(d, v) ~> CarriedToGold(d, v)

-----------------------------------------------------------------------------
(* Prefix metrics and the account hierarchy (SpecMetrics) *)

\* The row's account is the account `code` or lies below it in the hierarchy.
InSubtree(cd_conta, code) ==
    \/ cd_conta = code
    \/ /\ Len(cd_conta) > Len(code)
       /\ SubSeq(cd_conta, 1, Len(code)) = code
       /\ cd_conta[Len(code) + 1] = "."

\* The sum over the rows of the subtree of `code`, each row once.
RECURSIVE SubtreeSum(_, _)
SubtreeSum(rows, code) ==
    IF rows = <<>> THEN 0
    ELSE (IF InSubtree(rows[1].CD_CONTA, code) THEN ValueOf(rows[1]) ELSE 0)
            + SubtreeSum(Tail(rows), code)

PrefixMetricsWithinSubtree(rec, group) ==
    /\ rec.debt_short_term = SubtreeSum(group, Acc2_01_04)
    /\ rec.debt_long_term = SubtreeSum(group, Acc2_02_01)
    /\ rec.capex = Abs(SubtreeSum(group, Acc6_02_01))
    /\ rec.wc_change = SubtreeSum(group, Acc6_01_02)
    /\ SubtreeSum(group, Acc6_01_02_02) # 0
          => rec.interest_paid = Abs(SubtreeSum(group, Acc6_01_02_02))

\* C30: a prefix-match metric (debt 2.01.04 / 2.02.01, interest 6.01.02.02,
\* capex 6.02.01, wc_change 6.01.02) sums only the rows whose account code
\* equals the prefix or continues it with a '.', each row once; a row whose
\* code merely shares the leading characters (6.02.010 for 6.02.01) is not
\* included.
C30_PrefixSumsSubtreeOnly == EveryRecord(PrefixMetricsWithinSubtree)

====
